---------------------------- MODULE Spec2Model ----------------------------
(***************************************************************************)
(* A model of the Wikipedia MCP server's client (wikipedia_mcp/            *)
(* wikipedia_client.py), its server factory (wikipedia_mcp/server.py) and  *)
(* its entry point (wikipedia_mcp/__main__.py).                            *)
(*                                                                         *)
(* Representation.  A Python str that the code inspects or transforms      *)
(* (country inputs, language tags, URLs, queries) is a sequence of         *)
(* one-character strings, so that upper(), title(), strip() and            *)
(* concatenation are computed character by character as Python computes    *)
(* them.  Fixed tokens that the code only compares (dictionary keys of     *)
(* request parameters, "country"/"language", exception type names) are     *)
(* TLA+ strings.  Python's None is the value None below, which is no       *)
(* character sequence.  The two class-level dictionaries are ordered       *)
(* sequences of <<key, value>> pairs (a Python dict keeps insertion order).*)
(* The alphabet is ASCII: letters, digits, punctuation, and the whitespace *)
(* characters space, tab, newline and carriage return.                     *)
(***************************************************************************)
EXTENDS Integers, Sequences, FiniteSets, TLC

VARIABLES
  COUNTRY_TO_LANGUAGE,  \* class attribute WikipediaClient.COUNTRY_TO_LANGUAGE
  LANGUAGE_VARIANTS,    \* class attribute WikipediaClient.LANGUAGE_VARIANTS
  clients,              \* the WikipediaClient objects alive in the process, in creation order
  servers,              \* the FastMCP server objects create_server has returned
  call,                 \* the most recent call: operation, arguments, return value or exception
  outbound,             \* the HTTP requests that call issued, in order
  heap,                 \* the parameter dictionaries (Python dict objects) by object identity
  in_country            \* the country input of the run (locale specifications only)

vars == <<COUNTRY_TO_LANGUAGE, LANGUAGE_VARIANTS, clients, servers, call, outbound,
          heap, in_country>>

---------------------------------------------------------------------------
(* Python values and str methods                                           *)

None == <<"None">>

\* Python truthiness of an Optional[str]: None and "" are falsy.
truthy(s) == s # None /\ s # <<>>

ascii_lowercase == <<"a","b","c","d","e","f","g","h","i","j","k","l","m",
                     "n","o","p","q","r","s","t","u","v","w","x","y","z">>

ascii_uppercase == <<"A","B","C","D","E","F","G","H","I","J","K","L","M",
                     "N","O","P","Q","R","S","T","U","V","W","X","Y","Z">>

whitespace == {" ", "\t", "\n", "\r"}

islower(ch) == \E i \in DOMAIN ascii_lowercase : ascii_lowercase[i] = ch

isupper(ch) == \E i \in DOMAIN ascii_uppercase : ascii_uppercase[i] = ch

\* A cased character, as str.title() understands it.
iscased(ch) == islower(ch) \/ isupper(ch)

char_upper(ch) ==
  IF islower(ch)
    THEN ascii_uppercase[CHOOSE i \in DOMAIN ascii_lowercase : ascii_lowercase[i] = ch]
    ELSE ch

char_lower(ch) ==
  IF isupper(ch)
    THEN ascii_lowercase[CHOOSE i \in DOMAIN ascii_uppercase : ascii_uppercase[i] = ch]
    ELSE ch

\* str.upper()
str_upper(s) == [i \in 1..Len(s) |-> char_upper(s[i])]

\* str.lower()
str_lower(s) == [i \in 1..Len(s) |-> char_lower(s[i])]

\* str.title(): a cased character is upper-cased when the character before it
\* is not cased (or there is none), and lower-cased otherwise.
str_title(s) ==
  [i \in 1..Len(s) |->
     IF ~iscased(s[i]) THEN s[i]
     ELSE IF i > 1 /\ iscased(s[i-1]) THEN char_lower(s[i])
     ELSE char_upper(s[i])]

\* str.strip(): leading and trailing whitespace removed.
str_strip(s) ==
  LET keep == {i \in 1..Len(s) : s[i] \notin whitespace} IN
  IF keep = {} THEN <<>>
  ELSE SubSeq(s, CHOOSE i \in keep : \A j \in keep : i <= j,
                 CHOOSE i \in keep : \A j \in keep : i >= j)

\* dict operations on an ordered sequence of <<key, value>> pairs
dict_keys(d) == [i \in 1..Len(d) |-> d[i][1]]

dict_has(d, k) == \E i \in 1..Len(d) : d[i][1] = k

dict_get(d, k) == d[CHOOSE i \in 1..Len(d) : d[i][1] = k][2]

dict_values(d) == {d[i][2] : i \in 1..Len(d)}

\* The value of a normal return, and a raised exception.
Return(v) == [exc |-> "None", value |-> v]

Raise(type, message) == [exc |-> type, message |-> message]

---------------------------------------------------------------------------
(* The locale tables                                                       *)

\* LANGUAGE_VARIANTS as the class body defines it: variant tag -> base language
VariantTable ==
  << <<<<"z","h","-","h","a","n","s">>, <<"z","h">>>>,
     <<<<"z","h","-","h","a","n","t">>, <<"z","h">>>>,
     <<<<"z","h","-","t","w">>, <<"z","h">>>>,
     <<<<"z","h","-","h","k">>, <<"z","h">>>>,
     <<<<"z","h","-","m","o">>, <<"z","h">>>>,
     <<<<"z","h","-","c","n">>, <<"z","h">>>>,
     <<<<"z","h","-","s","g">>, <<"z","h">>>>,
     <<<<"z","h","-","m","y">>, <<"z","h">>>>,
     <<<<"s","r","-","l","a","t","n">>, <<"s","r">>>>,
     <<<<"s","r","-","c","y","r","l">>, <<"s","r">>>>,
     <<<<"n","o">>, <<"n","b">>>>,
     <<<<"k","u","-","l","a","t","n">>, <<"k","u">>>>,
     <<<<"k","u","-","a","r","a","b">>, <<"k","u">>>> >>

\* COUNTRY_TO_LANGUAGE as the class body defines it: country code or name -> language tag
CountryTable ==
  << <<<<"U","S">>, <<"e","n">>>>,
     <<<<"U","S","A">>, <<"e","n">>>>,
     <<<<"U","n","i","t","e","d"," ","S","t","a","t","e","s">>, <<"e","n">>>>,
     <<<<"U","K">>, <<"e","n">>>>,
     <<<<"G","B">>, <<"e","n">>>>,
     <<<<"U","n","i","t","e","d"," ","K","i","n","g","d","o","m">>, <<"e","n">>>>,
     <<<<"C","A">>, <<"e","n">>>>,
     <<<<"C","a","n","a","d","a">>, <<"e","n">>>>,
     <<<<"A","U">>, <<"e","n">>>>,
     <<<<"A","u","s","t","r","a","l","i","a">>, <<"e","n">>>>,
     <<<<"N","Z">>, <<"e","n">>>>,
     <<<<"N","e","w"," ","Z","e","a","l","a","n","d">>, <<"e","n">>>>,
     <<<<"I","E">>, <<"e","n">>>>,
     <<<<"I","r","e","l","a","n","d">>, <<"e","n">>>>,
     <<<<"Z","A">>, <<"e","n">>>>,
     <<<<"S","o","u","t","h"," ","A","f","r","i","c","a">>, <<"e","n">>>>,
     <<<<"C","N">>, <<"z","h","-","h","a","n","s">>>>,
     <<<<"C","h","i","n","a">>, <<"z","h","-","h","a","n","s">>>>,
     <<<<"T","W">>, <<"z","h","-","t","w">>>>,
     <<<<"T","a","i","w","a","n">>, <<"z","h","-","t","w">>>>,
     <<<<"H","K">>, <<"z","h","-","h","k">>>>,
     <<<<"H","o","n","g"," ","K","o","n","g">>, <<"z","h","-","h","k">>>>,
     <<<<"M","O">>, <<"z","h","-","m","o">>>>,
     <<<<"M","a","c","a","u">>, <<"z","h","-","m","o">>>>,
     <<<<"S","G">>, <<"z","h","-","s","g">>>>,
     <<<<"S","i","n","g","a","p","o","r","e">>, <<"z","h","-","s","g">>>>,
     <<<<"M","Y">>, <<"z","h","-","m","y">>>>,
     <<<<"M","a","l","a","y","s","i","a">>, <<"z","h","-","m","y">>>>,
     <<<<"D","E">>, <<"d","e">>>>,
     <<<<"G","e","r","m","a","n","y">>, <<"d","e">>>>,
     <<<<"F","R">>, <<"f","r">>>>,
     <<<<"F","r","a","n","c","e">>, <<"f","r">>>>,
     <<<<"E","S">>, <<"e","s">>>>,
     <<<<"S","p","a","i","n">>, <<"e","s">>>>,
     <<<<"I","T">>, <<"i","t">>>>,
     <<<<"I","t","a","l","y">>, <<"i","t">>>>,
     <<<<"P","T">>, <<"p","t">>>>,
     <<<<"P","o","r","t","u","g","a","l">>, <<"p","t">>>>,
     <<<<"N","L">>, <<"n","l">>>>,
     <<<<"N","e","t","h","e","r","l","a","n","d","s">>, <<"n","l">>>>,
     <<<<"P","L">>, <<"p","l">>>>,
     <<<<"P","o","l","a","n","d">>, <<"p","l">>>>,
     <<<<"R","U">>, <<"r","u">>>>,
     <<<<"R","u","s","s","i","a">>, <<"r","u">>>>,
     <<<<"U","A">>, <<"u","k">>>>,
     <<<<"U","k","r","a","i","n","e">>, <<"u","k">>>>,
     <<<<"T","R">>, <<"t","r">>>>,
     <<<<"T","u","r","k","e","y">>, <<"t","r">>>>,
     <<<<"G","R">>, <<"e","l">>>>,
     <<<<"G","r","e","e","c","e">>, <<"e","l">>>>,
     <<<<"S","E">>, <<"s","v">>>>,
     <<<<"S","w","e","d","e","n">>, <<"s","v">>>>,
     <<<<"N","O">>, <<"n","o">>>>,
     <<<<"N","o","r","w","a","y">>, <<"n","o">>>>,
     <<<<"D","K">>, <<"d","a">>>>,
     <<<<"D","e","n","m","a","r","k">>, <<"d","a">>>>,
     <<<<"F","I">>, <<"f","i">>>>,
     <<<<"F","i","n","l","a","n","d">>, <<"f","i">>>>,
     <<<<"I","S">>, <<"i","s">>>>,
     <<<<"I","c","e","l","a","n","d">>, <<"i","s">>>>,
     <<<<"C","Z">>, <<"c","s">>>>,
     <<<<"C","z","e","c","h"," ","R","e","p","u","b","l","i","c">>, <<"c","s">>>>,
     <<<<"S","K">>, <<"s","k">>>>,
     <<<<"S","l","o","v","a","k","i","a">>, <<"s","k">>>>,
     <<<<"H","U">>, <<"h","u">>>>,
     <<<<"H","u","n","g","a","r","y">>, <<"h","u">>>>,
     <<<<"R","O">>, <<"r","o">>>>,
     <<<<"R","o","m","a","n","i","a">>, <<"r","o">>>>,
     <<<<"B","G">>, <<"b","g">>>>,
     <<<<"B","u","l","g","a","r","i","a">>, <<"b","g">>>>,
     <<<<"H","R">>, <<"h","r">>>>,
     <<<<"C","r","o","a","t","i","a">>, <<"h","r">>>>,
     <<<<"S","I">>, <<"s","l">>>>,
     <<<<"S","l","o","v","e","n","i","a">>, <<"s","l">>>>,
     <<<<"R","S">>, <<"s","r">>>>,
     <<<<"S","e","r","b","i","a">>, <<"s","r">>>>,
     <<<<"B","A">>, <<"b","s">>>>,
     <<<<"B","o","s","n","i","a"," ","a","n","d"," ","H","e","r","z","e","g","o","v","i","n","a">>, <<"b","s">>>>,
     <<<<"M","K">>, <<"m","k">>>>,
     <<<<"M","a","c","e","d","o","n","i","a">>, <<"m","k">>>>,
     <<<<"A","L">>, <<"s","q">>>>,
     <<<<"A","l","b","a","n","i","a">>, <<"s","q">>>>,
     <<<<"M","T">>, <<"m","t">>>>,
     <<<<"M","a","l","t","a">>, <<"m","t">>>>,
     <<<<"J","P">>, <<"j","a">>>>,
     <<<<"J","a","p","a","n">>, <<"j","a">>>>,
     <<<<"K","R">>, <<"k","o">>>>,
     <<<<"S","o","u","t","h"," ","K","o","r","e","a">>, <<"k","o">>>>,
     <<<<"I","N">>, <<"h","i">>>>,
     <<<<"I","n","d","i","a">>, <<"h","i">>>>,
     <<<<"T","H">>, <<"t","h">>>>,
     <<<<"T","h","a","i","l","a","n","d">>, <<"t","h">>>>,
     <<<<"V","N">>, <<"v","i">>>>,
     <<<<"V","i","e","t","n","a","m">>, <<"v","i">>>>,
     <<<<"I","D">>, <<"i","d">>>>,
     <<<<"I","n","d","o","n","e","s","i","a">>, <<"i","d">>>>,
     <<<<"P","H">>, <<"t","l">>>>,
     <<<<"P","h","i","l","i","p","p","i","n","e","s">>, <<"t","l">>>>,
     <<<<"B","D">>, <<"b","n">>>>,
     <<<<"B","a","n","g","l","a","d","e","s","h">>, <<"b","n">>>>,
     <<<<"P","K">>, <<"u","r">>>>,
     <<<<"P","a","k","i","s","t","a","n">>, <<"u","r">>>>,
     <<<<"L","K">>, <<"s","i">>>>,
     <<<<"S","r","i"," ","L","a","n","k","a">>, <<"s","i">>>>,
     <<<<"M","M">>, <<"m","y">>>>,
     <<<<"M","y","a","n","m","a","r">>, <<"m","y">>>>,
     <<<<"K","H">>, <<"k","m">>>>,
     <<<<"C","a","m","b","o","d","i","a">>, <<"k","m">>>>,
     <<<<"L","A">>, <<"l","o">>>>,
     <<<<"L","a","o","s">>, <<"l","o">>>>,
     <<<<"M","N">>, <<"m","n">>>>,
     <<<<"M","o","n","g","o","l","i","a">>, <<"m","n">>>>,
     <<<<"K","Z">>, <<"k","k">>>>,
     <<<<"K","a","z","a","k","h","s","t","a","n">>, <<"k","k">>>>,
     <<<<"U","Z">>, <<"u","z">>>>,
     <<<<"U","z","b","e","k","i","s","t","a","n">>, <<"u","z">>>>,
     <<<<"A","F">>, <<"f","a">>>>,
     <<<<"A","f","g","h","a","n","i","s","t","a","n">>, <<"f","a">>>>,
     <<<<"I","R">>, <<"f","a">>>>,
     <<<<"I","r","a","n">>, <<"f","a">>>>,
     <<<<"S","A">>, <<"a","r">>>>,
     <<<<"S","a","u","d","i"," ","A","r","a","b","i","a">>, <<"a","r">>>>,
     <<<<"A","E">>, <<"a","r">>>>,
     <<<<"U","A","E">>, <<"a","r">>>>,
     <<<<"E","G">>, <<"a","r">>>>,
     <<<<"E","g","y","p","t">>, <<"a","r">>>>,
     <<<<"I","Q">>, <<"a","r">>>>,
     <<<<"I","r","a","q">>, <<"a","r">>>>,
     <<<<"S","Y">>, <<"a","r">>>>,
     <<<<"S","y","r","i","a">>, <<"a","r">>>>,
     <<<<"J","O">>, <<"a","r">>>>,
     <<<<"J","o","r","d","a","n">>, <<"a","r">>>>,
     <<<<"L","B">>, <<"a","r">>>>,
     <<<<"L","e","b","a","n","o","n">>, <<"a","r">>>>,
     <<<<"I","L">>, <<"h","e">>>>,
     <<<<"I","s","r","a","e","l">>, <<"h","e">>>>,
     <<<<"M","A">>, <<"a","r">>>>,
     <<<<"M","o","r","o","c","c","o">>, <<"a","r">>>>,
     <<<<"D","Z">>, <<"a","r">>>>,
     <<<<"A","l","g","e","r","i","a">>, <<"a","r">>>>,
     <<<<"T","N">>, <<"a","r">>>>,
     <<<<"T","u","n","i","s","i","a">>, <<"a","r">>>>,
     <<<<"L","Y">>, <<"a","r">>>>,
     <<<<"L","i","b","y","a">>, <<"a","r">>>>,
     <<<<"S","D">>, <<"a","r">>>>,
     <<<<"S","u","d","a","n">>, <<"a","r">>>>,
     <<<<"E","T">>, <<"a","m">>>>,
     <<<<"E","t","h","i","o","p","i","a">>, <<"a","m">>>>,
     <<<<"K","E">>, <<"s","w">>>>,
     <<<<"K","e","n","y","a">>, <<"s","w">>>>,
     <<<<"T","Z">>, <<"s","w">>>>,
     <<<<"T","a","n","z","a","n","i","a">>, <<"s","w">>>>,
     <<<<"N","G">>, <<"h","a">>>>,
     <<<<"N","i","g","e","r","i","a">>, <<"h","a">>>>,
     <<<<"G","H">>, <<"e","n">>>>,
     <<<<"G","h","a","n","a">>, <<"e","n">>>>,
     <<<<"M","X">>, <<"e","s">>>>,
     <<<<"M","e","x","i","c","o">>, <<"e","s">>>>,
     <<<<"A","R">>, <<"e","s">>>>,
     <<<<"A","r","g","e","n","t","i","n","a">>, <<"e","s">>>>,
     <<<<"C","O">>, <<"e","s">>>>,
     <<<<"C","o","l","o","m","b","i","a">>, <<"e","s">>>>,
     <<<<"V","E">>, <<"e","s">>>>,
     <<<<"V","e","n","e","z","u","e","l","a">>, <<"e","s">>>>,
     <<<<"P","E">>, <<"e","s">>>>,
     <<<<"P","e","r","u">>, <<"e","s">>>>,
     <<<<"C","L">>, <<"e","s">>>>,
     <<<<"C","h","i","l","e">>, <<"e","s">>>>,
     <<<<"E","C">>, <<"e","s">>>>,
     <<<<"E","c","u","a","d","o","r">>, <<"e","s">>>>,
     <<<<"B","O">>, <<"e","s">>>>,
     <<<<"B","o","l","i","v","i","a">>, <<"e","s">>>>,
     <<<<"P","Y">>, <<"e","s">>>>,
     <<<<"P","a","r","a","g","u","a","y">>, <<"e","s">>>>,
     <<<<"U","Y">>, <<"e","s">>>>,
     <<<<"U","r","u","g","u","a","y">>, <<"e","s">>>>,
     <<<<"C","R">>, <<"e","s">>>>,
     <<<<"C","o","s","t","a"," ","R","i","c","a">>, <<"e","s">>>>,
     <<<<"P","A">>, <<"e","s">>>>,
     <<<<"P","a","n","a","m","a">>, <<"e","s">>>>,
     <<<<"G","T">>, <<"e","s">>>>,
     <<<<"G","u","a","t","e","m","a","l","a">>, <<"e","s">>>>,
     <<<<"H","N">>, <<"e","s">>>>,
     <<<<"H","o","n","d","u","r","a","s">>, <<"e","s">>>>,
     <<<<"S","V">>, <<"e","s">>>>,
     <<<<"E","l"," ","S","a","l","v","a","d","o","r">>, <<"e","s">>>>,
     <<<<"N","I">>, <<"e","s">>>>,
     <<<<"N","i","c","a","r","a","g","u","a">>, <<"e","s">>>>,
     <<<<"C","U">>, <<"e","s">>>>,
     <<<<"C","u","b","a">>, <<"e","s">>>>,
     <<<<"D","O">>, <<"e","s">>>>,
     <<<<"D","o","m","i","n","i","c","a","n"," ","R","e","p","u","b","l","i","c">>, <<"e","s">>>>,
     <<<<"B","R">>, <<"p","t">>>>,
     <<<<"B","r","a","z","i","l">>, <<"p","t">>>>,
     <<<<"B","Y">>, <<"b","e">>>>,
     <<<<"B","e","l","a","r","u","s">>, <<"b","e">>>>,
     <<<<"E","E">>, <<"e","t">>>>,
     <<<<"E","s","t","o","n","i","a">>, <<"e","t">>>>,
     <<<<"L","V">>, <<"l","v">>>>,
     <<<<"L","a","t","v","i","a">>, <<"l","v">>>>,
     <<<<"L","T">>, <<"l","t">>>>,
     <<<<"L","i","t","h","u","a","n","i","a">>, <<"l","t">>>>,
     <<<<"G","E">>, <<"k","a">>>>,
     <<<<"G","e","o","r","g","i","a">>, <<"k","a">>>>,
     <<<<"A","M">>, <<"h","y">>>>,
     <<<<"A","r","m","e","n","i","a">>, <<"h","y">>>>,
     <<<<"A","Z">>, <<"a","z">>>>,
     <<<<"A","z","e","r","b","a","i","j","a","n">>, <<"a","z">>>> >>
---------------------------------------------------------------------------
(* WikipediaClient: locale resolution                                      *)

\* _resolve_country_to_language: upper-cased then stripped, title-cased then
\* stripped, then the input as given; otherwise ValueError with the input
\* and the first ten keys of at most three characters.
_resolve_country_to_language(country) ==
  LET country_upper == str_strip(str_upper(country))
      country_title == str_strip(str_title(country))
      available_countries == dict_keys(COUNTRY_TO_LANGUAGE)
      short == SelectSeq(available_countries, LAMBDA c : Len(c) <= 3)
      country_codes == SubSeq(short, 1, IF Len(short) < 10 THEN Len(short) ELSE 10)
  IN
  IF dict_has(COUNTRY_TO_LANGUAGE, country_upper)
    THEN Return(dict_get(COUNTRY_TO_LANGUAGE, country_upper))
  ELSE IF dict_has(COUNTRY_TO_LANGUAGE, country_title)
    THEN Return(dict_get(COUNTRY_TO_LANGUAGE, country_title))
  ELSE IF dict_has(COUNTRY_TO_LANGUAGE, country)
    THEN Return(dict_get(COUNTRY_TO_LANGUAGE, country))
  ELSE Raise("ValueError",
             [text |-> "Unsupported country/locale", country |-> country,
              country_codes |-> country_codes])

\* _parse_language_variant with the tag lower-cased before the lookup.
_parse_language_variant_lowercased(language) ==
  IF dict_has(LANGUAGE_VARIANTS, str_lower(language))
    THEN <<dict_get(LANGUAGE_VARIANTS, str_lower(language)), language>>
    ELSE <<language, None>>

\* _parse_language_variant that recognises a variant tag and keeps it as the base.
_parse_language_variant_keeps_tag(language) ==
  IF dict_has(LANGUAGE_VARIANTS, language)
    THEN <<language, language>>
    ELSE <<language, None>>

\* _parse_language_variant: (base_language, variant)
_parse_language_variant(language) ==
  IF dict_has(LANGUAGE_VARIANTS, language)
    THEN <<dict_get(LANGUAGE_VARIANTS, language), language>>
    ELSE <<language, None>>

---------------------------------------------------------------------------
(* WikipediaClient: construction                                           *)

\* __version__ of the package, as it appears in the User-Agent.
__version__ == <<"1",".","7",".","0">>

\* The ten operations __init__ wraps in functools.lru_cache when enable_cache is set.
CachedOperations ==
  {"search", "get_article", "get_summary", "get_sections", "get_links",
   "get_related_topics", "summarize_for_query", "summarize_section",
   "extract_facts", "get_coordinates"}

\* functools.lru_cache(maxsize=128)
lru_maxsize == 128

\* The object __init__ leaves behind once the language tag is resolved and
\* parsed.  args is a record of the call's arguments kept for the properties;
\* the Python object does not store the language argument when a country is given.
new_client(language, country, enable_cache, access_token, resolved_language, parsed) ==
  LET base_language == parsed[1]
      user_agent == <<"W","i","k","i","p","e","d","i","a","M","C","P","S","e","r","v","e","r","/">>
                    \o __version__
                    \o <<" ","(","h","t","t","p","s",":","/","/","g","i","t","h","u","b",".","c","o","m","/",
                         "r","u","d","r","a","-","r","a","v","i","/","w","i","k","i","p","e","d","i","a","-","m","c","p",")">>
  IN
  [ original_input    |-> IF truthy(country) THEN country ELSE language,
    input_type        |-> IF truthy(country) THEN "country" ELSE "language",
    resolved_language |-> resolved_language,
    original_language |-> resolved_language,
    enable_cache      |-> enable_cache,
    access_token      |-> access_token,
    user_agent        |-> user_agent,
    base_language     |-> base_language,
    language_variant  |-> parsed[2],
    wiki              |-> [user_agent |-> user_agent, language |-> base_language,
                           extract_format |-> "WIKI"],
    api_url           |-> <<"h","t","t","p","s",":","/","/">> \o base_language
                          \o <<".","w","i","k","i","p","e","d","i","a",".","o","r","g","/",
                               "w","/","a","p","i",".","p","h","p">>,
    lru               |-> [op \in (IF enable_cache THEN CachedOperations ELSE {}) |-> <<>>],
    args              |-> [language |-> language, country |-> country] ]

\* __init__ that parses the language argument instead of the resolved language.
__init___parses_language_argument(language, country, enable_cache, access_token) ==
  LET r == IF truthy(country) THEN _resolve_country_to_language(country)
           ELSE Return(language) IN
  IF r.exc # "None" THEN r
  ELSE Return(new_client(language, country, enable_cache, access_token, r.value,
                         _parse_language_variant(language)))

\* __init__ that lets a language other than the default "en" win over the country.
__init___language_first(language, country, enable_cache, access_token) ==
  LET r == IF truthy(country) /\ language = <<"e","n">>
             THEN _resolve_country_to_language(country)
             ELSE Return(language) IN
  IF r.exc # "None" THEN r
  ELSE Return(new_client(language, country, enable_cache, access_token, r.value,
                         _parse_language_variant(r.value)))

\* __init__ that falls back to the language when the country does not resolve.
__init___falls_back_to_language(language, country, enable_cache, access_token) ==
  LET r == IF truthy(country) THEN _resolve_country_to_language(country)
           ELSE Return(language)
      resolved_language == IF r.exc # "None" THEN language ELSE r.value
  IN
  Return(new_client(language, country, enable_cache, access_token, resolved_language,
                    _parse_language_variant(resolved_language)))

\* WikipediaClient.__init__: a country, when truthy, is resolved and supersedes
\* the language; a ValueError of the resolver leaves no object behind.
__init__(language, country, enable_cache, access_token) ==
  LET r == IF truthy(country) THEN _resolve_country_to_language(country)
           ELSE Return(language) IN
  IF r.exc # "None" THEN r
  ELSE Return(new_client(language, country, enable_cache, access_token, r.value,
                         _parse_language_variant(r.value)))

\* No call has been made yet.
NoCall == [op |-> "none"]

---------------------------------------------------------------------------
(* The resolver and the variant parser called on their own, as the tests   *)
(* call them on a default client.                                          *)

\* The re-casings and paddings of a table key that the resolver is given.
Recasings(k) == {k, str_upper(k), str_title(k), str_lower(k)}

Paddings(s) ==
  {s, <<" ">> \o s \o <<" ">>, <<"\t">> \o s \o <<"\t">>,
   <<" ", " ">> \o s \o <<" ", " ">>, <<" ">> \o s, s \o <<"\t">>}

\* Inputs that are no country of the table in any casing.
UnknownCountries ==
  { <<"I","N","V","A","L","I","D">>, <<"X","X">>, <<"A","t","l","a","n","t","i","s">>,
    <<"z","h","-","t","w">>, <<" ">>, <<"U"," ","S">>, <<>> }

ResolverInputs ==
  UNION { UNION { Paddings(c) : c \in Recasings(CountryTable[i][1]) } : i \in 1..Len(CountryTable) }
  \cup UnknownCountries

\* Language tags: every variant tag, every tag a country maps to, every base
\* language, and tags that are near a variant tag without being one.
LanguageInputs ==
  {VariantTable[i][1] : i \in 1..Len(VariantTable)}
  \cup {VariantTable[i][2] : i \in 1..Len(VariantTable)}
  \cup {CountryTable[i][2] : i \in 1..Len(CountryTable)}
  \cup { <<"Z","H","-","T","W">>, <<"z","h","_","t","w">>, <<"z","h","-","t","w"," ">>, <<>> }

\* The tables with "Uk" added as a country key for Ukrainian, next to "UK".
TablesInit_uk_alias ==
  /\ COUNTRY_TO_LANGUAGE = Append(CountryTable, << <<"U","k">>, <<"u","k">> >>)
  /\ LANGUAGE_VARIANTS = VariantTable

TablesInit ==
  /\ COUNTRY_TO_LANGUAGE = CountryTable
  /\ LANGUAGE_VARIANTS = VariantTable

InitResolve ==
  /\ TablesInit
  /\ clients = << __init__(<<"e","n">>, None, FALSE, None).value >>
  /\ servers = <<>>
  /\ call = NoCall
  /\ outbound = <<>>
  /\ heap = <<>>
  /\ in_country = None

\* client._resolve_country_to_language(country)
ResolveCountry ==
  /\ call = NoCall
  /\ \E country \in ResolverInputs :
       call' = [op |-> "_resolve_country_to_language", args |-> <<country>>,
                ret |-> _resolve_country_to_language(country)]
  /\ UNCHANGED <<COUNTRY_TO_LANGUAGE, LANGUAGE_VARIANTS, clients, servers, outbound,
                 heap, in_country>>

\* client._parse_language_variant(language)
ParseLanguageVariant ==
  /\ call = NoCall
  /\ \E language \in LanguageInputs :
       call' = [op |-> "_parse_language_variant", args |-> <<language>>,
                ret |-> Return(_parse_language_variant(language))]
  /\ UNCHANGED <<COUNTRY_TO_LANGUAGE, LANGUAGE_VARIANTS, clients, servers, outbound,
                 heap, in_country>>

NextResolve == ResolveCountry \/ ParseLanguageVariant

SpecResolve == InitResolve /\ [][NextResolve]_vars

---------------------------------------------------------------------------
(* Construction on its own: one country input per run, a first client      *)
(* built from it, and a second client built either from the same country   *)
(* or from a language tag alone.                                           *)

\* The language arguments given together with a country.
LanguagesWithCountry == { <<"e","n">>, <<"z","h","-","t","w">>, <<>> }

LocaleCountries ==
  {CountryTable[i][1] : i \in 1..Len(CountryTable)}
  \cup UNION { UNION { Paddings(c) : c \in Recasings(k) } :
               k \in { <<"T","W">>, <<"J","a","p","a","n">>, <<"N","O">>,
                       <<"H","o","n","g"," ","K","o","n","g">> } }
  \cup UnknownCountries
  \cup {None}

\* WikipediaClient(language, country, enable_cache, access_token): the call, and
\* the new object when __init__ returns normally.
Construct(language, country, enable_cache, access_token) ==
  LET r == __init__(language, country, enable_cache, access_token) IN
  /\ call' = [op |-> "WikipediaClient",
              args |-> [language |-> language, country |-> country,
                        enable_cache |-> enable_cache, access_token |-> access_token],
              ret |-> IF r.exc = "None" THEN Return(Len(clients) + 1) ELSE r]
  /\ clients' = IF r.exc = "None" THEN Append(clients, r.value) ELSE clients
  /\ outbound' = <<>>
  /\ UNCHANGED <<COUNTRY_TO_LANGUAGE, LANGUAGE_VARIANTS, servers, heap, in_country>>

InitLocale ==
  /\ TablesInit
  /\ in_country \in LocaleCountries
  /\ clients = <<>>
  /\ servers = <<>>
  /\ call = NoCall
  /\ outbound = <<>>
  /\ heap = <<>>

\* The first client of the run: WikipediaClient(language=..., country=in_country)
ConstructFirst ==
  /\ Len(clients) = 0
  /\ \E language \in LanguagesWithCountry : Construct(language, in_country, FALSE, None)

\* A second client from the same country and any of the languages
ConstructSameCountry ==
  /\ Len(clients) = 1
  /\ \E language \in LanguagesWithCountry : Construct(language, in_country, FALSE, None)

\* A second client from a language tag alone: WikipediaClient(language=...)
ConstructFromLanguage ==
  /\ Len(clients) = 1
  /\ \E language \in LanguageInputs : Construct(language, None, FALSE, None)

NextLocale == ConstructFirst \/ ConstructSameCountry \/ ConstructFromLanguage

SpecLocale == InitLocale /\ [][NextLocale]_vars

---------------------------------------------------------------------------
(* Properties of the resolver and the variant parser (SpecResolve)         *)

\* The keys of CountryTable and the tag of each.
CountryKeys == 1..Len(CountryTable)

\* c surrounded by leading and trailing spaces or tabs
Surrounded(c) ==
  { <<" ">> \o c \o <<" ">>, <<"\t">> \o c \o <<"\t">>, <<" ", " ">> \o c \o <<" ", " ">> }

\* C4: the resolver is case-insensitive: for every key c of CountryTable, c,
\* c.upper(), c.title() and c.lower() all resolve, to the tag CountryTable gives c.
C4_CaseInsensitive ==
  call.op = "_resolve_country_to_language" =>
    \A i \in CountryKeys :
      ( /\ Len(call.args[1]) = Len(CountryTable[i][1])
        /\ call.args[1] \in Recasings(CountryTable[i][1]) ) =>
        /\ call.ret.exc = "None"
        /\ call.ret.value = CountryTable[i][2]

\* C5: the resolver tolerates whitespace: for every key c of CountryTable, c
\* surrounded by leading and trailing spaces or tabs resolves to the tag of c.
C5_WhitespaceTolerant ==
  call.op = "_resolve_country_to_language" =>
    \A i \in CountryKeys :
      ( /\ Len(call.args[1]) > Len(CountryTable[i][1])
        /\ call.args[1] \in Surrounded(CountryTable[i][1]) ) =>
        /\ call.ret.exc = "None"
        /\ call.ret.value = CountryTable[i][2]

\* C8: _parse_language_variant never fails; for a key v of VariantTable it
\* returns (VariantTable[v], v), and for every other tag t it returns (t, None).
C8_ParseVariantTableDriven ==
  call.op = "_parse_language_variant" =>
    LET t == call.args[1] IN
    /\ call.ret.exc = "None"
    /\ \A i \in 1..Len(VariantTable) :
         t = VariantTable[i][1] => call.ret.value = <<VariantTable[i][2], t>>
    /\ (\A i \in 1..Len(VariantTable) : t # VariantTable[i][1]) =>
         call.ret.value = <<t, None>>

\* C8 witness: "no" has been parsed to ("nb", "no"), and a tag that is no key
\* of the table has been parsed too (in another run: one call per run).
C8_Witness ==
  /\ call.op = "_parse_language_variant"
  /\ call.args[1] = <<"n","o">>
  /\ call.ret.value = << <<"n","b">>, <<"n","o">> >>

----------------------------------------------------------------------------
(* Properties of construction (SpecLocale)                                 *)

\* The resolved locale of a client: base language, variant and API endpoint.
Locale(c) == <<c.base_language, c.language_variant, c.api_url>>

\* The keys of CountryTable in lower case.
LoweredKeys == [i \in CountryKeys |-> str_lower(CountryTable[i][1])]

\* tag is the tag CountryTable gives for a country input: the tag of a key
\* equal to the input up to case and surrounding whitespace.
IsTagFor(country, tag) ==
  LET c == str_lower(str_strip(country)) IN
  \E i \in CountryKeys : LoweredKeys[i] = c /\ CountryTable[i][2] = tag

\* C2: a client constructed from a country has the same base language, variant
\* and endpoint as a client constructed from the language tag that CountryTable
\* gives for that country.
C2_EntryPathEquivalence ==
  \A i, j \in DOMAIN clients :
    ( /\ clients[i].input_type = "country"
      /\ clients[j].input_type = "language"
      /\ IsTagFor(clients[i].args.country, clients[j].args.language) )
    => Locale(clients[i]) = Locale(clients[j])

\* C2 witness: a client from country "TW" beside a client from language "zh-tw",
\* both with base "zh" and variant "zh-tw".
C2_Witness ==
  /\ Len(clients) = 2
  /\ clients[1].args.country = <<"T","W">>
  /\ clients[2].args = [language |-> <<"z","h","-","t","w">>, country |-> None]
  /\ clients[1].language_variant = <<"z","h","-","t","w">>
  /\ Locale(clients[1]) = Locale(clients[2])

\* C3: with a non-empty country the locale is decided by the country alone: two
\* clients built from the same country and any languages have the same resolved
\* language and locale, construction succeeds whatever the language is, and
\* country "JP" with language "en" gives base "ja".
C3_CountryPrecedence ==
  /\ \A i, j \in DOMAIN clients :
       ( /\ truthy(clients[i].args.country)
         /\ clients[i].args.country = clients[j].args.country )
       => /\ Locale(clients[i]) = Locale(clients[j])
          /\ clients[i].resolved_language = clients[j].resolved_language
  /\ \A i \in DOMAIN clients :
       truthy(clients[i].args.country) =>
         /\ IsTagFor(clients[i].args.country, clients[i].resolved_language)
         /\ clients[i].input_type = "country"
         /\ clients[i].original_input = clients[i].args.country
  /\ (call.op = "WikipediaClient" /\ call.args.country = <<"J","P">>) =>
       /\ call.ret.exc = "None"
       /\ clients[call.ret.value].base_language = <<"j","a">>

\* C3 witness: two clients from country "JP", one with language "en" and one
\* with language "zh-tw", both with base "ja".
C3_Witness ==
  /\ Len(clients) = 2
  /\ clients[1].args = [language |-> <<"e","n">>, country |-> <<"J","P">>]
  /\ clients[2].args = [language |-> <<"z","h","-","t","w">>, country |-> <<"J","P">>]
  /\ clients[2].base_language = <<"j","a">>

\* C9: the base language of a constructed client is never a variant tag: it is
\* no key of VariantTable, so parsing it again gives (base_language, None).
C9_BaseNeverVariant ==
  \A i \in DOMAIN clients :
    /\ \A v \in 1..Len(VariantTable) : clients[i].base_language # VariantTable[v][1]
    /\ _parse_language_variant(clients[i].base_language) = <<clients[i].base_language, None>>

\* C9 witness: clients built from the variant-bearing country "NO" and from the
\* variant tag "sr-latn", with bases "nb" and "sr".
C9_Witness ==
  /\ Len(clients) = 2
  /\ clients[1].args.country = <<"N","O">>
  /\ clients[1].base_language = <<"n","b">>
  /\ clients[2].args.language = <<"s","r","-","l","a","t","n">>
  /\ clients[2].base_language = <<"s","r">>

----------------------------------------------------------------------------
(* WikipediaClient: request headers and parameters                         *)

\* A Python dict with string-literal keys is a function from its keys.
EmptyDict == [k \in {} |-> None]

\* dict.get(key, default)
Get(d, k, default) == IF k \in DOMAIN d THEN d[k] ELSE default

\* _get_request_headers: the User-Agent, and the bearer token when one is set.
_get_request_headers(self) ==
  LET headers == ("User-Agent" :> self.user_agent) IN
  IF truthy(self.access_token)
    THEN ("Authorization" :> (<<"B","e","a","r","e","r"," ">> \o self.access_token)) @@ headers
    ELSE headers

\* _add_variant_to_params without the copy: the variant is written into the
\* dictionary that was passed in.
_add_variant_to_params_in_place(self, objects, params) ==
  IF truthy(self.language_variant)
    THEN [objects |-> [objects EXCEPT ![params] =
                         ("variant" :> self.language_variant) @@ objects[params]],
          ret |-> params]
    ELSE [objects |-> objects, ret |-> params]

\* _add_variant_to_params.  objects are the dict objects by identity and params
\* the identity of the argument; with a variant the argument is copied and the
\* copy, a new object, gets the key "variant"; without one the argument itself
\* is returned.
_add_variant_to_params(self, objects, params) ==
  IF truthy(self.language_variant)
    THEN [objects |-> Append(objects, ("variant" :> self.language_variant) @@ objects[params]),
          ret |-> Len(objects) + 1]
    ELSE [objects |-> objects, ret |-> params]

----------------------------------------------------------------------------
(* _add_variant_to_params called on its own, as the tests call it          *)

\* The most dict objects a run allocates.
MaxObjects == 3

\* The parameter dictionaries passed in: with and without a "variant" entry.
ParamsInputs ==
  { [action |-> "query", format |-> "json"],
    EmptyDict,
    [action |-> "query", format |-> "json", variant |-> <<"z","h","-","c","n">>],
    [action |-> "query", variant |-> <<"z","h","-","t","w">>],
    [variant |-> <<"s","r","-","l","a","t","n">>],
    [action |-> "query", format |-> "json", prop |-> "coordinates",
     titles |-> <<"T","a","i","p","e","i">>],
    [action |-> "query", format |-> "json", list |-> "search", utf8 |-> 1,
     srsearch |-> <<"C","h","i","n","a">>, srlimit |-> 5] }

InitParams ==
  /\ TablesInit
  /\ \E language \in { <<"e","n">>, <<"z","h","-","t","w">>, <<"z","h","-","h","a","n","s">>,
                       <<"s","r","-","l","a","t","n">>, <<"n","o">>, <<"j","a">> } :
       clients = << __init__(language, None, FALSE, None).value >>
  /\ \E params \in ParamsInputs : heap = <<params>>
  /\ servers = <<>>
  /\ call = NoCall
  /\ outbound = <<>>
  /\ in_country = None

\* client._add_variant_to_params(params), on any dict of the heap: the one the
\* run started with or one an earlier call returned.  before is the value of
\* the argument when the call was made.
AddVariantToParams ==
  /\ Len(heap) < MaxObjects
  /\ \E params \in DOMAIN heap :
       LET r == _add_variant_to_params(clients[1], heap, params) IN
       /\ heap' = r.objects
       /\ call' = [op |-> "_add_variant_to_params", args |-> [self |-> 1, params |-> params],
                   ret |-> Return(r.ret), before |-> heap[params], objects |-> Len(heap)]
  /\ UNCHANGED <<COUNTRY_TO_LANGUAGE, LANGUAGE_VARIANTS, clients, servers, outbound, in_country>>

NextParams == AddVariantToParams

SpecParams == InitParams /\ [][NextParams]_vars

\* C10: _add_variant_to_params is non-destructive and idempotent.  Without a
\* variant the result equals the argument, no key added.  With variant v the
\* result is the argument with the single key "variant" set to v and every other
\* entry as it was, so that a second application with the same v returns an equal
\* dictionary.  In both cases the dictionary passed in is the same after the
\* call as before it.
C10_WithVariantNonDestructive ==
  call.op = "_add_variant_to_params" =>
    LET v      == clients[call.args.self].language_variant
        before == call.before
        result == heap[call.ret.value]
    IN
    /\ heap[call.args.params] = before
    /\ v = None => result = before
    /\ v # None =>
         /\ DOMAIN result = DOMAIN before \cup {"variant"}
         /\ result["variant"] = v
         /\ \A k \in DOMAIN before \ {"variant"} : result[k] = before[k]
    /\ (v # None /\ "variant" \in DOMAIN before /\ before["variant"] = v) => result = before

\* C10 witness: the call was applied to the dictionary an earlier call returned
\* for the same variant: the result equals it, and the dictionary the run
\* started with still has no "variant" key.
C10_Witness ==
  /\ call.op = "_add_variant_to_params"
  /\ Len(heap) = 3
  /\ call.args.params = 2
  /\ clients[1].language_variant = <<"z","h","-","t","w">>
  /\ heap[1] = [action |-> "query", format |-> "json"]
  /\ heap[3] = heap[2]
  /\ heap[2] = [action |-> "query", format |-> "json", variant |-> <<"z","h","-","t","w">>]

----------------------------------------------------------------------------
(* The HTTP transport: requests.get, response.raise_for_status and         *)
(* response.json seen from the client.  A call either raises one of the    *)
(* exceptions the client names, or yields the decoded JSON body.           *)

\* requests.get(url, headers=..., params=..., timeout=...)
Request(url, headers, params, timeout) ==
  [via |-> "requests.get", url |-> url, headers |-> headers, params |-> params,
   timeout |-> timeout]

\* requests.get(url, headers=..., params=...): no timeout argument, the call
\* waits for the remote end as long as it takes.
RequestWithoutTimeout(url, headers, params) ==
  [via |-> "requests.get", url |-> url, headers |-> headers, params |-> params]

\* The exceptions of the transport: timeout, connection error, HTTP error
\* status, another requests error, a body that is no JSON, anything else.
TransportErrors ==
  {"Timeout", "ConnectionError", "HTTPError", "RequestException", "ValueError", "Exception"}

Failed(exc) == [kind |-> "raise", exc |-> exc]

Body(data) == [kind |-> "json", data |-> data]

\* What the remote end may do with one request whose bodies are in datas.
Outcomes(datas) == {Failed(e) : e \in TransportErrors} \cup {Body(d) : d \in datas}

\* The result of an operation: its return value and the requests it issued.
Result(value, requests) == [ret |-> Return(value), requests |-> requests]

----------------------------------------------------------------------------
(* WikipediaClient.test_connectivity and WikipediaClient.search            *)

\* test_connectivity: one siteinfo request with a ten second timeout; any
\* exception becomes a status "failed" mapping.
test_connectivity(self, outcome) ==
  LET test_url == <<"h","t","t","p","s",":","/","/">> \o self.base_language
                  \o <<".","w","i","k","i","p","e","d","i","a",".","o","r","g","/",
                       "w","/","a","p","i",".","p","h","p">>
      test_params == [action |-> "query", format |-> "json", meta |-> "siteinfo",
                      siprop |-> "general"]
      request == Request(test_url, _get_request_headers(self), test_params, 10)
  IN
  IF outcome.kind = "raise"
    THEN Result([status |-> "failed", url |-> test_url, language |-> self.base_language,
                 error |-> outcome.exc, error_type |-> outcome.exc], <<request>>)
    ELSE LET site_info == Get(Get(outcome.data, "query", EmptyDict), "general", EmptyDict) IN
         Result([status |-> "success", url |-> test_url, language |-> self.base_language,
                 site_name |-> Get(site_info, "sitename", <<"U","n","k","n","o","w","n">>),
                 server |-> Get(site_info, "server", <<"U","n","k","n","o","w","n">>),
                 response_time_ms |-> outcome.data.elapsed_ms], <<request>>)

\* The longest query search transmits.
search_max_query == 300

\* The limit search uses for a limit that is not positive, and the largest one.
search_default_limit == 10

search_max_limit == 500

\* The result entries search builds from the items of the response, in order;
\* an item without a title (absent or empty) is skipped.
RECURSIVE search_results(_)
search_results(items) ==
  IF items = <<>> THEN <<>>
  ELSE LET item == Head(items)
           title == Get(item, "title", None)
       IN
       IF ~truthy(title) THEN search_results(Tail(items))
       ELSE << [title |-> title,
                snippet |-> Get(item, "snippet", <<>>),
                pageid |-> Get(item, "pageid", 0),
                wordcount |-> Get(item, "wordcount", 0),
                timestamp |-> Get(item, "timestamp", <<>>)] >>
            \o search_results(Tail(items))

\* search that sends the query and the limit as they were given.
search_unnormalized(self, query, limit, outcome) ==
  LET params == [action |-> "query", format |-> "json", list |-> "search", utf8 |-> 1,
                 srsearch |-> query, srlimit |-> limit]
      added == _add_variant_to_params(self, <<params>>, 1)
      request == Request(self.api_url, _get_request_headers(self),
                         added.objects[added.ret], 30)
  IN
  IF outcome.kind = "raise" THEN Result(<<>>, <<request>>)
  ELSE IF "error" \in DOMAIN outcome.data THEN Result(<<>>, <<request>>)
  ELSE Result(search_results(Get(Get(outcome.data, "query", EmptyDict), "search", <<>>)),
              <<request>>)

\* search without its last handler (except Exception): an exception that is none
\* of the named ones leaves the operation.
search_named_handlers_only(self, query, limit, outcome) ==
  IF Len(query) = 0 \/ Len(str_strip(query)) = 0 THEN Result(<<>>, <<>>)
  ELSE IF outcome.kind = "raise" /\ outcome.exc = "Exception"
    THEN [ret |-> Raise("Exception", <<>>),
          requests |-> << Request(self.api_url, _get_request_headers(self), EmptyDict, 30) >>]
  ELSE Result(<<>>, << Request(self.api_url, _get_request_headers(self), EmptyDict, 30) >>)

\* search: an empty or blank query returns [] without a request; otherwise the
\* query is stripped and cut to 300 characters, the limit coerced into 1..500,
\* the variant added, one request sent with a thirty second timeout, and every
\* exception or API error becomes [].
search(self, query, limit, outcome) ==
  IF Len(query) = 0 \/ Len(str_strip(query)) = 0 THEN Result(<<>>, <<>>)
  ELSE
    LET stripped == str_strip(query)
        trimmed_query == IF Len(stripped) > search_max_query
                           THEN SubSeq(stripped, 1, search_max_query) ELSE stripped
        srlimit == IF limit <= 0 THEN search_default_limit
                   ELSE IF limit > search_max_limit THEN search_max_limit ELSE limit
        params == [action |-> "query", format |-> "json", list |-> "search", utf8 |-> 1,
                   srsearch |-> trimmed_query, srlimit |-> srlimit]
        added == _add_variant_to_params(self, <<params>>, 1)
        request == Request(self.api_url, _get_request_headers(self),
                           added.objects[added.ret], 30)
    IN
    IF outcome.kind = "raise" THEN Result(<<>>, <<request>>)
    ELSE IF "error" \in DOMAIN outcome.data THEN Result(<<>>, <<request>>)
    ELSE Result(search_results(Get(Get(outcome.data, "query", EmptyDict), "search", <<>>)),
                <<request>>)

----------------------------------------------------------------------------
(* WikipediaClient.get_coordinates                                         *)

\* The entries get_coordinates builds from the coordinates of the response.
RECURSIVE processed_coordinates(_)
processed_coordinates(coordinates) ==
  IF coordinates = <<>> THEN <<>>
  ELSE LET coord == Head(coordinates) IN
       << [latitude |-> Get(coord, "lat", None),
           longitude |-> Get(coord, "lon", None),
           primary |-> Get(coord, "primary", FALSE),
           globe |-> Get(coord, "globe", <<"e","a","r","t","h">>),
           type |-> Get(coord, "type", <<>>),
           name |-> Get(coord, "name", <<>>),
           region |-> Get(coord, "region", <<>>),
           country |-> Get(coord, "country", <<>>)] >>
       \o processed_coordinates(Tail(coordinates))

\* get_coordinates that reports the first coordinate entry of the page only.
get_coordinates_first_only(self, title, outcome) ==
  LET request == RequestWithoutTimeout(self.api_url, _get_request_headers(self), EmptyDict)
      pages == IF outcome.kind = "raise" THEN <<>>
               ELSE Get(Get(outcome.data, "query", EmptyDict), "pages", <<>>)
      coordinates == IF pages = <<>> THEN <<>> ELSE Get(pages[1], "coordinates", <<>>)
  IN
  IF coordinates = <<>> \/ Get(pages[1], "pageid", -1) < 0
    THEN Result([title |-> title, coordinates |-> None, exists |-> FALSE,
                 error |-> "No page found"], <<request>>)
    ELSE Result([title |-> Get(pages[1], "title", title),
                 pageid |-> Get(pages[1], "pageid", None),
                 coordinates |-> processed_coordinates(<<Head(coordinates)>>),
                 exists |-> TRUE, error |-> None], <<request>>)

\* get_coordinates: one request, sent without a timeout argument, with the
\* variant added.  The pages of the response are the values of its "pages"
\* mapping in order; the first one is used.
get_coordinates(self, title, outcome) ==
  LET params == [action |-> "query", format |-> "json", prop |-> "coordinates",
                 titles |-> title]
      added == _add_variant_to_params(self, <<params>>, 1)
      request == RequestWithoutTimeout(self.api_url, _get_request_headers(self),
                                       added.objects[added.ret])
  IN
  IF outcome.kind = "raise"
    THEN Result([title |-> title, coordinates |-> None, exists |-> FALSE,
                 error |-> outcome.exc], <<request>>)
  ELSE
    LET pages == Get(Get(outcome.data, "query", EmptyDict), "pages", <<>>) IN
    IF pages = <<>>
      THEN Result([title |-> title, coordinates |-> None, exists |-> FALSE,
                   error |-> "No page found"], <<request>>)
    ELSE
      LET page_data == pages[1]
          coordinates == Get(page_data, "coordinates", <<>>)
      IN
      IF Get(page_data, "pageid", -1) < 0
        THEN Result([title |-> title, coordinates |-> None, exists |-> FALSE,
                     error |-> "Page does not exist"], <<request>>)
      ELSE IF coordinates = <<>>
        THEN Result([title |-> Get(page_data, "title", title),
                     pageid |-> Get(page_data, "pageid", None),
                     coordinates |-> None, exists |-> TRUE, error |-> None,
                     message |-> "No coordinates available for this article"],
                    <<request>>)
      ELSE Result([title |-> Get(page_data, "title", title),
                   pageid |-> Get(page_data, "pageid", None),
                   coordinates |-> processed_coordinates(coordinates),
                   exists |-> TRUE, error |-> None], <<request>>)

----------------------------------------------------------------------------
(* The article library: self.wiki = wikipediaapi.Wikipedia(user_agent,     *)
(* language, extract_format) and page = self.wiki.page(title).  The        *)
(* library knows the user agent and the base language it was constructed   *)
(* with and the title it is asked for, and nothing else of the client.  A  *)
(* page is fetched lazily: each group of properties costs one request to   *)
(* the API of the library's language.                                      *)

\* One request of the library for a group of properties of a title.
wiki_fetch(self, title, prop) ==
  [via |-> "wikipediaapi",
   url |-> <<"h","t","t","p","s",":","/","/">> \o self.wiki.language
           \o <<".","w","i","k","i","p","e","d","i","a",".","o","r","g","/",
                "w","/","a","p","i",".","p","h","p">>,
   headers |-> ("User-Agent" :> self.wiki.user_agent),
   params |-> [action |-> "query", format |-> "json", redirects |-> 1,
               prop |-> prop, titles |-> title],
   timeout |-> 10]

\* A page that does not exist.
Missing == [exists |-> FALSE]

\* self.wiki.page(title) on a site: a mapping from the titles that exist to
\* their pages.
wiki_page(site, title) == IF title \in DOMAIN site THEN site[title] ELSE Missing

\* A message built from a fixed text and the values formatted into it.
Message(text, values) == [text |-> text, values |-> values]

\* _extract_sections: the nested section list, root sections at level 0.
RECURSIVE _extract_sections(_, _)
_extract_sections(sections, level) ==
  [i \in 1..Len(sections) |->
     [title |-> sections[i].title, level |-> level, text |-> sections[i].text,
      sections |-> _extract_sections(sections[i].sections, level + 1)]]

\* list[:n] and str[:n] for any integer n.
Prefix(s, n) ==
  LET stop == IF n < 0 THEN (IF Len(s) + n < 0 THEN 0 ELSE Len(s) + n)
              ELSE IF n > Len(s) THEN Len(s) ELSE n
  IN SubSeq(s, 1, stop)

\* The number of links get_article returns at most.
article_max_links == 100

\* get_article
get_article(self, title, outcome) ==
  IF outcome.kind = "raise"
    THEN Result([title |-> title, exists |-> FALSE, error |-> outcome.exc],
                << wiki_fetch(self, title, "info") >>)
  ELSE
    LET page == wiki_page(outcome.site, title) IN
    IF ~page.exists
      THEN Result([title |-> title, exists |-> FALSE, error |-> "Page does not exist"],
                  << wiki_fetch(self, title, "info") >>)
      ELSE Result([title |-> page.title, pageid |-> page.pageid, summary |-> page.summary,
                   text |-> page.text, url |-> page.fullurl,
                   sections |-> _extract_sections(page.sections, 0),
                   categories |-> page.categories,
                   links |-> Prefix(page.links, article_max_links),
                   exists |-> TRUE],
                  << wiki_fetch(self, title, "info"), wiki_fetch(self, title, "extracts"),
                     wiki_fetch(self, title, "categories"), wiki_fetch(self, title, "links") >>)

\* get_summary
get_summary(self, title, outcome) ==
  IF outcome.kind = "raise"
    THEN Result(Message("Error retrieving summary for", <<title, outcome.exc>>),
                << wiki_fetch(self, title, "info") >>)
  ELSE
    LET page == wiki_page(outcome.site, title) IN
    IF ~page.exists
      THEN Result(Message("No Wikipedia article found for", <<title>>),
                  << wiki_fetch(self, title, "info") >>)
      ELSE Result(page.summary,
                  << wiki_fetch(self, title, "info"), wiki_fetch(self, title, "extracts") >>)

\* get_sections
get_sections(self, title, outcome) ==
  IF outcome.kind = "raise" THEN Result(<<>>, << wiki_fetch(self, title, "info") >>)
  ELSE
    LET page == wiki_page(outcome.site, title) IN
    IF ~page.exists THEN Result(<<>>, << wiki_fetch(self, title, "info") >>)
    ELSE Result(_extract_sections(page.sections, 0),
                << wiki_fetch(self, title, "info"), wiki_fetch(self, title, "extracts") >>)

\* get_links
get_links(self, title, outcome) ==
  IF outcome.kind = "raise" THEN Result(<<>>, << wiki_fetch(self, title, "info") >>)
  ELSE
    LET page == wiki_page(outcome.site, title) IN
    IF ~page.exists THEN Result(<<>>, << wiki_fetch(self, title, "info") >>)
    ELSE Result(page.links,
                << wiki_fetch(self, title, "info"), wiki_fetch(self, title, "links") >>)

----------------------------------------------------------------------------
(* str.find, str.split, str.replace and slicing                            *)

\* s[a:b] for any integers a and b: a negative index counts from the end, and
\* both are clamped to the length.
PySlice(s, a, b) ==
  LET norm(i) == IF i < 0 THEN (IF Len(s) + i < 0 THEN 0 ELSE Len(s) + i)
                 ELSE IF i > Len(s) THEN Len(s) ELSE i
  IN SubSeq(s, norm(a) + 1, norm(b))

\* s.find(sub): the lowest 0-based index at which sub occurs in s, or -1.
str_find(s, sub) ==
  LET at == {i \in 0..(Len(s) - Len(sub)) : SubSeq(s, i + 1, i + Len(sub)) = sub} IN
  IF at = {} THEN -1 ELSE CHOOSE i \in at : \A j \in at : i <= j

\* s.split(".")
RECURSIVE str_split(_, _)
str_split(s, sep) ==
  LET at == {i \in 1..Len(s) : s[i] = sep} IN
  IF at = {} THEN <<s>>
  ELSE LET p == CHOOSE i \in at : \A j \in at : i <= j IN
       <<SubSeq(s, 1, p - 1)>> \o str_split(SubSeq(s, p + 1, Len(s)), sep)

\* s.replace(old, new), old not empty
RECURSIVE str_replace(_, _, _)
str_replace(s, old, new) ==
  IF Len(s) < Len(old) THEN s
  ELSE IF SubSeq(s, 1, Len(old)) = old
    THEN new \o str_replace(SubSeq(s, Len(old) + 1, Len(s)), old, new)
    ELSE <<Head(s)>> \o str_replace(Tail(s), old, new)

\* The three dots appended to a text that was cut.
Ellipsis == <<".",".",".">>

----------------------------------------------------------------------------
(* WikipediaClient.get_related_topics                                      *)

\* The length a linked page's summary is cut to.
related_summary_length == 200

\* The loop over links[:limit]: each linked page is looked up in turn, an
\* existing one is added with its summary, and the loop ends once the list
\* has limit entries.
RECURSIVE related_links(_, _, _, _, _, _)
related_links(self, site, links, limit, related, requests) ==
  IF links = <<>> THEN [related |-> related, requests |-> requests]
  ELSE
    LET link == Head(links)
        link_page == wiki_page(site, link)
        related1 ==
          IF link_page.exists
            THEN Append(related,
                   [title |-> link,
                    summary |-> IF Len(link_page.summary) > related_summary_length
                                  THEN PySlice(link_page.summary, 0, related_summary_length)
                                       \o Ellipsis
                                  ELSE link_page.summary,
                    url |-> link_page.fullurl,
                    type |-> "link"])
            ELSE related
        requests1 ==
          requests \o << wiki_fetch(self, link, "info") >>
          \o (IF link_page.exists THEN << wiki_fetch(self, link, "extracts") >> ELSE <<>>)
    IN
    IF Len(related1) >= limit THEN [related |-> related1, requests |-> requests1]
    ELSE related_links(self, site, Tail(links), limit, related1, requests1)

\* get_related_topics: links first, then categories[:remaining] when room is left.
get_related_topics(self, title, limit, outcome) ==
  IF outcome.kind = "raise" THEN Result(<<>>, << wiki_fetch(self, title, "info") >>)
  ELSE
    LET page == wiki_page(outcome.site, title) IN
    IF ~page.exists THEN Result(<<>>, << wiki_fetch(self, title, "info") >>)
    ELSE
      LET linked == related_links(self, outcome.site, PySlice(page.links, 0, limit), limit, <<>>,
                                  << wiki_fetch(self, title, "info"),
                                     wiki_fetch(self, title, "links"),
                                     wiki_fetch(self, title, "categories") >>)
          remaining == limit - Len(linked.related)
          chosen == PySlice(page.categories, 0, remaining)
          categories ==
            [i \in 1..Len(chosen) |->
               [title |-> str_replace(chosen[i], <<"C","a","t","e","g","o","r","y",":">>, <<>>),
                type |-> "category"]]
      IN
      Result(IF remaining > 0 THEN linked.related \o categories ELSE linked.related,
             linked.requests)

----------------------------------------------------------------------------
(* WikipediaClient.summarize_for_query, summarize_section, extract_facts   *)

\* summarize_for_query
summarize_for_query(self, title, query, max_length, outcome) ==
  IF outcome.kind = "raise"
    THEN Result(Message("Error generating query-focused summary for", <<title, outcome.exc>>),
                << wiki_fetch(self, title, "info") >>)
  ELSE
    LET page == wiki_page(outcome.site, title)
        requests == << wiki_fetch(self, title, "info"), wiki_fetch(self, title, "extracts") >>
    IN
    IF ~page.exists
      THEN Result(Message("No Wikipedia article found for", <<title>>),
                  << wiki_fetch(self, title, "info") >>)
    ELSE
      LET text_content == page.text
          start_index == str_find(str_lower(text_content), str_lower(query))
          half == max_length \div 2
      IN
      IF start_index = -1
        THEN LET from_summary == PySlice(page.summary, 0, max_length)
                 summary_part == IF from_summary = <<>>
                                   THEN PySlice(text_content, 0, max_length)
                                   ELSE from_summary
             IN Result(IF Len(summary_part) >= max_length
                         THEN summary_part \o Ellipsis ELSE summary_part, requests)
        ELSE LET context_start == IF start_index - half < 0 THEN 0 ELSE start_index - half
                 reach == start_index + Len(query) + half
                 context_end == IF reach > Len(text_content) THEN Len(text_content) ELSE reach
                 window == PySlice(text_content, context_start, context_end)
                 snippet == IF Len(window) > max_length
                              THEN PySlice(window, 0, max_length) ELSE window
             IN Result(IF Len(snippet) >= max_length \/ context_end < Len(text_content)
                         THEN snippet \o Ellipsis ELSE snippet, requests)

\* No section was found.
NoSection == [found |-> FALSE]

\* find_section_recursive of summarize_section: the first section, depth first,
\* whose title equals the target ignoring case.
RECURSIVE find_section_recursive(_, _)
find_section_recursive(sections_list, target_title) ==
  IF sections_list = <<>> THEN NoSection
  ELSE
    LET sec == Head(sections_list) IN
    IF str_lower(sec.title) = str_lower(target_title)
      THEN [found |-> TRUE, title |-> sec.title, text |-> sec.text]
    ELSE
      LET found_in_subsection == find_section_recursive(sec.sections, target_title) IN
      IF found_in_subsection.found THEN found_in_subsection
      ELSE find_section_recursive(Tail(sections_list), target_title)

\* summarize_section
summarize_section(self, title, section_title, max_length, outcome) ==
  IF outcome.kind = "raise"
    THEN Result(Message("Error summarizing section", <<section_title, outcome.exc>>),
                << wiki_fetch(self, title, "info") >>)
  ELSE
    LET page == wiki_page(outcome.site, title)
        requests == << wiki_fetch(self, title, "info"), wiki_fetch(self, title, "extracts") >>
    IN
    IF ~page.exists
      THEN Result(Message("No Wikipedia article found for", <<title>>),
                  << wiki_fetch(self, title, "info") >>)
    ELSE
      LET target_section == find_section_recursive(page.sections, section_title) IN
      IF ~target_section.found \/ target_section.text = <<>>
        THEN Result(Message("Section not found or is empty in article",
                            <<section_title, title>>), requests)
        ELSE LET summary == PySlice(target_section.text, 0, max_length) IN
             Result(IF Len(target_section.text) > max_length
                      THEN summary \o Ellipsis ELSE summary, requests)

\* find_section_text_recursive of extract_facts: the text of the first matching
\* section of the list; a match found inside a subsection counts only when its
\* text is not empty, otherwise the search goes on with the next section.
RECURSIVE find_section_text_recursive(_, _)
find_section_text_recursive(sections_list, target_title) ==
  IF sections_list = <<>> THEN None
  ELSE
    LET sec == Head(sections_list) IN
    IF str_lower(sec.title) = str_lower(target_title) THEN sec.text
    ELSE
      LET found_in_subsection == find_section_text_recursive(sec.sections, target_title) IN
      IF truthy(found_in_subsection) THEN found_in_subsection
      ELSE find_section_text_recursive(Tail(sections_list), target_title)

\* The sentences of a text: its parts between periods, stripped, blanks dropped.
sentences_of(text) ==
  LET parts == str_split(text, ".")
      stripped == [i \in 1..Len(parts) |-> str_strip(parts[i])]
  IN SelectSeq(stripped, LAMBDA s : s # <<>>)

\* extract_facts
extract_facts(self, title, topic_within_article, count, outcome) ==
  IF outcome.kind = "raise"
    THEN Result(<< Message("Error extracting key facts for", <<title, outcome.exc>>) >>,
                << wiki_fetch(self, title, "info") >>)
  ELSE
    LET page == wiki_page(outcome.site, title)
        requests == << wiki_fetch(self, title, "info"), wiki_fetch(self, title, "extracts") >>
    IN
    IF ~page.exists
      THEN Result(<< Message("No Wikipedia article found for", <<title>>) >>,
                  << wiki_fetch(self, title, "info") >>)
    ELSE
      LET section_text == IF truthy(topic_within_article)
                            THEN find_section_text_recursive(page.sections, topic_within_article)
                            ELSE None
          text_to_process == IF truthy(section_text) THEN section_text ELSE page.summary
          chosen == PySlice(sentences_of(text_to_process), 0, count)
          facts == [i \in 1..Len(chosen) |-> chosen[i] \o <<".">>]
      IN
      IF text_to_process = <<>>
        THEN Result(<< Message("No content found to extract facts from.", <<>>) >>, requests)
      ELSE IF facts = <<>>
        THEN Result(<< Message("Could not extract facts from the provided text.", <<>>) >>,
                    requests)
      ELSE Result(facts, requests)

----------------------------------------------------------------------------
(* functools.lru_cache(maxsize=128) around an operation                    *)

\* self.<op>(*key) on a client: without the cache the operation runs; with it
\* a key already stored returns the stored value without running the
\* operation and becomes the most recently used, and a new key runs the
\* operation and stores its return value, dropping the least recently used
\* entry of a full cache.
lru_cache(self, op, key, result) ==
  IF op \notin DOMAIN self.lru
    THEN [self |-> self, ret |-> result.ret, requests |-> result.requests]
  ELSE
    LET cache == self.lru[op]
        hits == {i \in 1..Len(cache) : cache[i].key = key}
    IN
    IF hits # {}
      THEN LET entry == cache[CHOOSE i \in hits : TRUE]
               others == SelectSeq(cache, LAMBDA e : e.key # key)
           IN [self |-> [self EXCEPT !.lru[op] = Append(others, entry)],
               ret |-> entry.ret, requests |-> <<>>]
      ELSE LET kept == IF Len(cache) >= lru_maxsize THEN Tail(cache) ELSE cache IN
           [self |-> [self EXCEPT !.lru[op] = Append(kept, [key |-> key, ret |-> result.ret])],
            ret |-> result.ret, requests |-> result.requests]

\* The wrapper as the steps it takes when calls overlap: the lookup and the
\* store are each done under the lock of the cache, and the method body runs
\* between them with no lock held.
\* lru_cache that stores without looking whether another call has stored the
\* key in the meantime.
lru_store_unchecked(self, op, key, ret) ==
  IF op \notin DOMAIN self.lru THEN self
  ELSE LET cache == self.lru[op]
           kept == IF Len(cache) >= lru_maxsize THEN Tail(cache) ELSE cache
       IN [self EXCEPT !.lru[op] = Append(kept, [key |-> key, ret |-> ret])]

\* lru_cache whose lookup never finds a key.
lru_lookup_never_hits(self, op, key) ==
  [hit |-> FALSE, self |-> self]

\* The first step of the wrapper: a stored key is a hit, its entry becomes
\* the most recently used and its value is returned.
lru_lookup(self, op, key) ==
  IF op \notin DOMAIN self.lru THEN [hit |-> FALSE, self |-> self]
  ELSE
    LET cache == self.lru[op]
        hits == {i \in 1..Len(cache) : cache[i].key = key}
    IN
    IF hits = {} THEN [hit |-> FALSE, self |-> self]
    ELSE LET entry == cache[CHOOSE i \in hits : TRUE]
             others == SelectSeq(cache, LAMBDA e : e.key # key)
         IN [hit |-> TRUE, self |-> [self EXCEPT !.lru[op] = Append(others, entry)],
             ret |-> entry.ret]

\* lru_cache without a capacity: maxsize=None.
lru_store_unbounded(self, op, key, ret) ==
  IF op \notin DOMAIN self.lru THEN self
  ELSE
    LET cache == self.lru[op] IN
    IF \E i \in 1..Len(cache) : cache[i].key = key THEN self
    ELSE [self EXCEPT !.lru[op] = Append(cache, [key |-> key, ret |-> ret])]

\* The last step of the wrapper, after the method body returned ret: nothing
\* is stored when the key has been stored since the lookup; otherwise the
\* entry is added, in place of the least recently used one of a full cache.
lru_store(self, op, key, ret) ==
  IF op \notin DOMAIN self.lru THEN self
  ELSE
    LET cache == self.lru[op] IN
    IF \E i \in 1..Len(cache) : cache[i].key = key THEN self
    ELSE LET kept == IF Len(cache) >= lru_maxsize THEN Tail(cache) ELSE cache IN
         [self EXCEPT !.lru[op] = Append(kept, [key |-> key, ret |-> ret])]

----------------------------------------------------------------------------
(* create_server and the entry point                                       *)

\* create_server: the FastMCP object is made first, then the client; a
\* ValueError of the client propagates and nothing is returned.
create_server(language, country, enable_cache, access_token) ==
  LET wikipedia_client == __init__(language, country, enable_cache, access_token) IN
  IF wikipedia_client.exc # "None" THEN wikipedia_client
  ELSE Return([name |-> "Wikipedia", wikipedia_client |-> wikipedia_client.value])

\* a or b of Python
py_or(a, b) == IF truthy(a) THEN a ELSE b

\* _parse_locale_env: (preferred_language, preferred_country) from the
\* environment.  A locale string with exactly one delimiter gives both, any
\* other gives the whole string as the language; WIKIPEDIA_LANGUAGE is used
\* when the locale gave no language.
_parse_locale_env(env) ==
  LET env_language == env.WIKIPEDIA_LANGUAGE
      env_locale == py_or(env.WIKIPEDIA_LANGUAGE_REGION, env.WIKIPEDIA_LOCALE)
      has(ch) == \E i \in 1..Len(env_locale) : env_locale[i] = ch
      delimiter == IF has("_") THEN "_" ELSE IF has("-") THEN "-" ELSE "None"
      parts == str_split(env_locale, delimiter)
      from_locale ==
        IF ~truthy(env_locale) THEN <<None, None>>
        ELSE IF delimiter # "None" /\ Len(parts) = 2
          THEN <<str_lower(parts[1]), str_upper(parts[2])>>
        ELSE <<str_lower(env_locale), None>>
  IN
  IF truthy(env_language) /\ ~truthy(from_locale[1])
    THEN <<str_lower(env_language), from_locale[2]>>
    ELSE from_locale

\* The characters of the table's language tags and keys in the order of
\* their code points, by which Python compares strings.
code_order ==
  <<" ", "-", "0","1","2","3","4","5","6","7","8","9">> \o ascii_uppercase \o <<"_">> \o ascii_lowercase

ord(ch) == CHOOSE i \in DOMAIN code_order : code_order[i] = ch

\* a < b of two strs
str_lt(a, b) ==
  \E k \in 0..Len(a) :
    /\ k <= Len(b)
    /\ SubSeq(a, 1, k) = SubSeq(b, 1, k)
    /\ IF k = Len(a) THEN k < Len(b)
       ELSE k < Len(b) /\ ord(a[k + 1]) < ord(b[k + 1])

\* str(n) of an integer n >= 0
RECURSIVE str_int(_)
str_int(n) ==
  LET digit == <<"0","1","2","3","4","5","6","7","8","9">>[(n % 10) + 1] IN
  IF n < 10 THEN <<digit>> ELSE str_int(n \div 10) \o <<digit>>

\* sep.join(items)
RECURSIVE str_join(_, _)
str_join(sep, items) ==
  IF items = <<>> THEN <<>>
  ELSE IF Len(items) = 1 THEN items[1]
  ELSE items[1] \o sep \o str_join(sep, Tail(items))

\* f"{s:>width}"
str_rjust(s, width) ==
  IF Len(s) >= width THEN s ELSE [k \in 1..(width - Len(s)) |-> " "] \o s

\* What main prints for --list-countries, one element for each print(): the
\* heading, then for each language in sorted order its first five countries
\* in table order and the number of the others, then the examples.
list_countries(table) ==
  LET places == [i \in 1..Len(table) |-> i]
      first_places == SelectSeq(places, LAMBDA i : \A j \in 1..(i - 1) : table[j][2] # table[i][2])
      languages == SortSeq([k \in 1..Len(first_places) |-> table[first_places[k]][2]], str_lt)
      line(lang) ==
        LET of_lang == SelectSeq(places, LAMBDA i : table[i][2] = lang)
            countries == [k \in 1..Len(of_lang) |-> table[of_lang[k]][1]]
            examples == IF Len(countries) > 5
                          THEN Append(SubSeq(countries, 1, 5),
                                      <<".",".","."," ","(","+">> \o str_int(Len(countries) - 5) \o <<" ","m","o","r","e",")">>)
                          ELSE countries
        IN str_rjust(lang, 6) \o <<":"," ">> \o str_join(<<","," ">>, examples)
  IN
  << <<"S","u","p","p","o","r","t","e","d"," ","C","o","u","n","t","r","y","/","L","o","c","a","l","e"," ","C","o","d","e","s",":">>, [k \in 1..40 |-> "="] >>
  \o [k \in 1..Len(languages) |-> line(languages[k])]
  \o << <<"\n">> \o <<"E","x","a","m","p","l","e","s",":">>,
        <<" "," ","w","i","k","i","p","e","d","i","a","-","m","c","p"," ","-","-","c","o","u","n","t","r","y"," ","U","S"," "," "," "," ","#"," ","E","n","g","l","i","s","h"," ","(","U","n","i","t","e","d"," ","S","t","a","t","e","s",")">>,
        <<" "," ","w","i","k","i","p","e","d","i","a","-","m","c","p"," ","-","-","c","o","u","n","t","r","y"," ","C","N"," "," "," "," ","#"," ","C","h","i","n","e","s","e"," ","S","i","m","p","l","i","f","i","e","d"," ","(","C","h","i","n","a",")">>,
        <<" "," ","w","i","k","i","p","e","d","i","a","-","m","c","p"," ","-","-","c","o","u","n","t","r","y"," ","T","W"," "," "," "," ","#"," ","C","h","i","n","e","s","e"," ","T","r","a","d","i","t","i","o","n","a","l"," ","(","T","a","i","w","a","n",")">>,
        <<" "," ","w","i","k","i","p","e","d","i","a","-","m","c","p"," ","-","-","c","o","u","n","t","r","y"," ","J","a","p","a","n"," ","#"," ","J","a","p","a","n","e","s","e">> >>

\* str(e) of the ValueError of _resolve_country_to_language
str_ValueError(message) ==
  <<"U","n","s","u","p","p","o","r","t","e","d"," ","c","o","u","n","t","r","y","/","l","o","c","a","l","e",":"," ","'">> \o message.country \o <<"'","."," ","S","u","p","p","o","r","t","e","d"," ","c","o","u","n","t","r","y"," ","c","o","d","e","s"," ","i","n","c","l","u","d","e",":"," ">>
  \o str_join(<<","," ">>, message.country_codes)
  \o <<"."," ","U","s","e"," ","-","-","l","a","n","g","u","a","g","e"," ","p","a","r","a","m","e","t","e","r"," ","f","o","r"," ","d","i","r","e","c","t"," ","l","a","n","g","u","a","g","e"," ","c","o","d","e","s"," ","i","n","s","t","e","a","d",".">>

\* What main prints when --language is given with a country: the error, then
\* the help of the argument parser.
conflict_printed ==
  << <<"E","r","r","o","r",":"," ","C","a","n","n","o","t"," ","s","p","e","c","i","f","y"," ","b","o","t","h"," ","-","-","l","a","n","g","u","a","g","e"," ","a","n","d"," ","-","-","c","o","u","n","t","r","y","."," ","U","s","e"," ","o","n","e"," ","o","r"," ","t","h","e"," ","o","t","h","e","r",".">>,
     Message("parser.print_help()", <<>>) >>

\* What main prints when create_server raised the ValueError e.
configuration_error_printed(message) ==
  << <<"E","r","r","o","r",":"," ">> \o str_ValueError(message),
     <<"\n">> \o <<"U","s","e"," ","-","-","l","i","s","t","-","c","o","u","n","t","r","i","e","s"," ","t","o"," ","s","e","e"," ","s","u","p","p","o","r","t","e","d"," ","c","o","u","n","t","r","y"," ","c","o","d","e","s",".">> >>

\* main that looks for the conflict of --language and --country only after it
\* has created the server.
main_conflict_after_create(env, argv) ==
  LET preferred == _parse_locale_env(env)
      preferred_language == preferred[1]
      preferred_country == preferred[2]
      _language_explicitly_set == argv.language # None
      parsed_language == IF _language_explicitly_set THEN argv.language
                         ELSE py_or(preferred_language, <<"e","n">>)
      parsed_country == IF argv.country # None THEN argv.country ELSE preferred_country
      override == ~truthy(parsed_country) /\ ~_language_explicitly_set
      country == IF override /\ truthy(preferred_country) THEN preferred_country
                 ELSE parsed_country
      language == IF override /\ truthy(preferred_language) THEN preferred_language
                  ELSE parsed_language
      access_token == py_or(argv.access_token, env.WIKIPEDIA_ACCESS_TOKEN)
      server == create_server(language, country, argv.enable_cache, access_token)
  IN
  IF argv.list_countries
    THEN [exit |-> "listed", client |-> __init__(<<"e","n">>, None, FALSE, None).value,
          printed |-> list_countries(COUNTRY_TO_LANGUAGE),
          args |-> [language |-> parsed_language, country |-> parsed_country]]
  ELSE IF server.exc = "ValueError"
    THEN [exit |-> "configuration_error", error |-> server.message,
          printed |-> configuration_error_printed(server.message),
          args |-> [language |-> language, country |-> country]]
  ELSE IF truthy(parsed_country) /\ _language_explicitly_set
    THEN [exit |-> "conflict",
          printed |-> conflict_printed,
          server |-> server.value,
          args |-> [language |-> parsed_language, country |-> parsed_country]]
  ELSE [exit |-> "server.run", server |-> server.value, transport |-> argv.transport,
        printed |-> <<>>,
        args |-> [language |-> language, country |-> country]]


\* main: the command line is parsed with the environment's language and
\* country as defaults.  A listing request constructs a default client, lists
\* its table and returns; a country together with an explicit --language is
\* refused with a printed error; otherwise the environment's values are
\* applied when neither was given, the server is created, a ValueError is
\* reported, and server.run is called on success.
main(env, argv) ==
  LET preferred == _parse_locale_env(env)
      preferred_language == preferred[1]
      preferred_country == preferred[2]
      _language_explicitly_set == argv.language # None
      parsed_language == IF _language_explicitly_set THEN argv.language
                         ELSE py_or(preferred_language, <<"e","n">>)
      parsed_country == IF argv.country # None THEN argv.country ELSE preferred_country
      override == ~truthy(parsed_country) /\ ~_language_explicitly_set
      country == IF override /\ truthy(preferred_country) THEN preferred_country
                 ELSE parsed_country
      language == IF override /\ truthy(preferred_language) THEN preferred_language
                  ELSE parsed_language
      access_token == py_or(argv.access_token, env.WIKIPEDIA_ACCESS_TOKEN)
      server == create_server(language, country, argv.enable_cache, access_token)
  IN
  IF argv.list_countries
    THEN [exit |-> "listed", client |-> __init__(<<"e","n">>, None, FALSE, None).value,
          printed |-> list_countries(COUNTRY_TO_LANGUAGE),
          args |-> [language |-> parsed_language, country |-> parsed_country]]
  ELSE IF truthy(parsed_country) /\ _language_explicitly_set
    THEN [exit |-> "conflict",
          printed |-> conflict_printed,
          args |-> [language |-> parsed_language, country |-> parsed_country]]
  ELSE IF server.exc = "ValueError"
    THEN [exit |-> "configuration_error", error |-> server.message,
          printed |-> configuration_error_printed(server.message),
          args |-> [language |-> language, country |-> country]]
  ELSE [exit |-> "server.run", server |-> server.value, transport |-> argv.transport,
        printed |-> <<>>,
        args |-> [language |-> language, country |-> country]]

----------------------------------------------------------------------------
(* The process: clients and servers are constructed and the operations of  *)
(* the clients are called in any order.  The clients of this run are       *)
(* constructed with enable_cache=False, and each operation is called with  *)
(* a few arguments and answers only.                                       *)

\* The most clients a run constructs.
MaxClients == 2

\* WikipediaClient(language=..., country=..., access_token=...) as called directly
DirectArguments ==
  { [language |-> <<"e","n">>, country |-> <<" ","t","w"," ">>, access_token |-> <<"t","o","k","-","1","2","3">>],
    [language |-> <<"e","n">>, country |-> <<"I","N","V","A","L","I","D">>, access_token |-> None],
    [language |-> <<"z","h","-","t","w">>, country |-> <<" "," ">>, access_token |-> None] }

\* create_server(language=..., country=...)
ServerArguments ==
  { [language |-> <<"e","n">>, country |-> <<>>],
    [language |-> <<"e","n">>, country |-> <<"I","N","V","A","L","I","D">>] }

\* The environments and command lines of the entry point.
Environments ==
  [ WIKIPEDIA_LANGUAGE : {None},
    WIKIPEDIA_LANGUAGE_REGION : {None, <<"z","h","_","T","W">>, <<"e","n","-","X","X">>},
    WIKIPEDIA_LOCALE : {None},
    WIKIPEDIA_ACCESS_TOKEN : {None} ]

CommandLines ==
  [ language : {None, <<"z","h","-","t","w">>},
    country : {None, <<"I","N","V","A","L","I","D">>},
    list_countries : BOOLEAN,
    enable_cache : {FALSE},
    access_token : {None},
    transport : {"stdio"} ]

\* The titles asked for, and the pages of the site.
Titles == { <<"T","a","i","p","e","i">> }

PageTaipei ==
  [ exists |-> TRUE, title |-> <<"T","a","i","p","e","i">>, pageid |-> 57,
    summary |-> <<"T","a","i","p","e","i"," ","i","s"," ","a"," ","c","i","t","y","."," ","I","t"," ","i","s"," ","b","i","g",".">>,
    text |-> <<"T","a","i","p","e","i"," ","i","s"," ","a"," ","c","i","t","y","."," ","I","t"," ","i","s"," ","b","i","g","."," ","O","l","d"," ","t","o","w","n","."," ","P","o","r","t",".">>,
    fullurl |-> <<"w","i","k","i","/","T","a","i","p","e","i">>,
    sections |-> << [title |-> <<"H","i","s","t","o","r","y">>, text |-> <<"O","l","d"," ","t","o","w","n","."," ","P","o","r","t",".">>,
                     sections |-> << [title |-> <<"E","a","r","l","y">>, text |-> <<>>, sections |-> <<>>] >>],
                    [title |-> <<"N","o","t","e","s">>, text |-> <<>>,
                     sections |-> << [title |-> <<"e","a","r","l","y">>, text |-> <<"F","o","r","t",".">>, sections |-> <<>>] >>] >>,
    categories |-> << <<"C","a","t","e","g","o","r","y",":","C","i","t","i","e","s">>, <<"C","a","t","e","g","o","r","y",":","C","a","p","i","t","a","l","s">> >>,
    links |-> << <<"T","a","i","w","a","n">>, <<"G","h","o","s","t">>, <<"T","a","m","s","u","i">> >> ]

PageTaiwan ==
  [ exists |-> TRUE, title |-> <<"T","a","i","w","a","n">>, pageid |-> 58, summary |-> <<"A","n"," ","i","s","l","a","n","d",".">>,
    text |-> <<"A","n"," ","i","s","l","a","n","d",".">>, fullurl |-> <<"w","i","k","i","/","T","a","i","w","a","n">>, sections |-> <<>>,
    categories |-> <<>>, links |-> <<>> ]

PageTamsui ==
  [ exists |-> TRUE, title |-> <<"T","a","m","s","u","i">>, pageid |-> 59, summary |-> <<>>,
    text |-> <<>>, fullurl |-> <<"w","i","k","i","/","T","a","m","s","u","i">>, sections |-> <<>>,
    categories |-> <<>>, links |-> <<>> ]

Site == (<<"T","a","i","p","e","i">> :> PageTaipei) @@ (<<"T","a","i","w","a","n">> :> PageTaiwan) @@ (<<"T","a","m","s","u","i">> :> PageTamsui)

\* What the library may do: fail at the first request, or serve the site.
LibraryOutcomes == { Failed("ConnectionError"), [kind |-> "site", site |-> Site] }

\* The library serves the site.
Served == { [kind |-> "site", site |-> Site] }

\* What the API may do with the request of test_connectivity.
ConnectivityOutcomes ==
  { Failed("Timeout"),
    Body([query |-> [general |-> [sitename |-> <<"W","i","k","i","p","e","d","i","a">>, server |-> <<"/","/","z","h",".","w","i","k","i","p","e","d","i","a",".","o","r","g">>]],
          elapsed_ms |-> 12]) }

\* What the API may do with the request of search.
SearchOutcomes ==
  { Failed("Timeout"),
    Body([query |-> [search |-> << [title |-> <<"T","a","i","p","e","i">>, snippet |-> <<"c","i","t","y">>, pageid |-> 57,
                                    wordcount |-> 9, timestamp |-> <<"2","0","2","4">>],
                                   [snippet |-> <<"u","n","t","i","t","l","e","d">>],
                                   [title |-> <<"T","a","i","p","e","i"," ","1","0","1">>] >>]]) }

Queries == { <<" ","T","a","i","p","e","i"," ">> }

Limits == { 5 }

\* What the API may do with the request of get_coordinates.
CoordinatesOutcomes ==
  { Body([query |-> [pages |-> << [title |-> <<"T","a","i","p","e","i">>, pageid |-> 57,
                                   coordinates |-> << [lat |-> 25, lon |-> 121,
                                                       primary |-> TRUE,
                                                       globe |-> <<"e","a","r","t","h">>] >>] >>]]) }

RelatedLimits == { 2 }

SummaryQueries == { <<"C","I","T","Y">> }

MaxLengths == { 4 }

SectionTitles == { <<"h","i","s","t","o","r","y">> }

Topics == { <<"e","a","r","l","y">> }

Counts == { 1 }

Init ==
  /\ TablesInit
  /\ in_country = None
  /\ clients = <<>>
  /\ servers = <<>>
  /\ call = NoCall
  /\ outbound = <<>>
  /\ heap = <<>>

\* client = WikipediaClient(...)
NewClient ==
  /\ Len(clients) < MaxClients
  /\ \E a \in DirectArguments : Construct(a.language, a.country, FALSE, a.access_token)

\* server = create_server(...): the server and its client, not yet running
CreateServer ==
  /\ Len(clients) < MaxClients
  /\ \E a \in ServerArguments :
       LET r == create_server(a.language, a.country, FALSE, None) IN
       /\ call' = [op |-> "create_server",
                   args |-> [language |-> a.language, country |-> a.country,
                             enable_cache |-> FALSE, access_token |-> None],
                   ret |-> IF r.exc = "None" THEN Return(Len(servers) + 1) ELSE r]
       /\ clients' = IF r.exc = "None" THEN Append(clients, r.value.wikipedia_client)
                     ELSE clients
       /\ servers' = IF r.exc = "None"
                       THEN Append(servers, [name |-> r.value.name,
                                             wikipedia_client |-> Len(clients) + 1,
                                             running |-> FALSE])
                       ELSE servers
       /\ outbound' = <<>>
       /\ UNCHANGED <<COUNTRY_TO_LANGUAGE, LANGUAGE_VARIANTS, heap, in_country>>

\* The entry point is run: python -m wikipedia_mcp.  A listing request
\* constructs a default client in a local variable before it lists: the
\* object is gone when main returns, and the call records it as constructed.
\* A successful run constructs the server and its client, which stay; the
\* conflict and the configuration error construct no client that is returned.
Main ==
  /\ Len(clients) < MaxClients
  /\ \E env \in Environments, argv \in CommandLines :
     \E m \in { main(env, argv) } :
       /\ call' = [op |-> "main", env |-> env, argv |-> argv, args |-> m.args,
                   exit |-> m.exit,
                   error |-> IF m.exit = "configuration_error" THEN m.error
                             ELSE [text |-> "None"],
                   constructed |-> IF m.exit = "listed" THEN << m.client >>
                                   ELSE IF m.exit = "server.run"
                                     THEN << m.server.wikipedia_client >>
                                   ELSE <<>>]
       /\ clients' = IF m.exit = "server.run" THEN Append(clients, m.server.wikipedia_client)
                     ELSE clients
       /\ servers' = IF m.exit = "server.run"
                       THEN Append(servers, [name |-> m.server.name,
                                             wikipedia_client |-> Len(clients) + 1,
                                             running |-> TRUE])
                       ELSE servers
       /\ outbound' = <<>>
       /\ UNCHANGED <<COUNTRY_TO_LANGUAGE, LANGUAGE_VARIANTS, heap, in_country>>

\* clients[i].<op>(*key) on a client of this run, which has no cache: the
\* wrapper leaves the call as it is; the requests of the call are the
\* outbound requests.
Operate(i, op, key, result) ==
  LET r == lru_cache(clients[i], op, key, result) IN
  /\ ~clients[i].enable_cache
  /\ clients' = [clients EXCEPT ![i] = r.self]
  /\ call' = [op |-> op, client |-> i, args |-> key, ret |-> r.ret]
  /\ outbound' = r.requests
  /\ UNCHANGED <<COUNTRY_TO_LANGUAGE, LANGUAGE_VARIANTS, servers, heap, in_country>>

TestConnectivity ==
  \E i \in 1..Len(clients), outcome \in ConnectivityOutcomes :
    LET r == test_connectivity(clients[i], outcome) IN
    /\ call' = [op |-> "test_connectivity", client |-> i, args |-> <<>>, ret |-> r.ret]
    /\ outbound' = r.requests
    /\ UNCHANGED <<COUNTRY_TO_LANGUAGE, LANGUAGE_VARIANTS, clients, servers, heap, in_country>>

Search ==
  \E i \in 1..Len(clients), query \in Queries, limit \in Limits, outcome \in SearchOutcomes :
    Operate(i, "search", <<query, limit>>, search(clients[i], query, limit, outcome))

GetArticle ==
  \E i \in 1..Len(clients), title \in Titles, outcome \in Served :
    Operate(i, "get_article", <<title>>, get_article(clients[i], title, outcome))

GetSummary ==
  \E i \in 1..Len(clients), title \in Titles, outcome \in LibraryOutcomes :
    Operate(i, "get_summary", <<title>>, get_summary(clients[i], title, outcome))

GetSections ==
  \E i \in 1..Len(clients), title \in Titles, outcome \in Served :
    Operate(i, "get_sections", <<title>>, get_sections(clients[i], title, outcome))

GetLinks ==
  \E i \in 1..Len(clients), title \in Titles, outcome \in Served :
    Operate(i, "get_links", <<title>>, get_links(clients[i], title, outcome))

GetRelatedTopics ==
  \E i \in 1..Len(clients), title \in Titles, limit \in RelatedLimits,
     outcome \in Served :
    Operate(i, "get_related_topics", <<title, limit>>,
            get_related_topics(clients[i], title, limit, outcome))

SummarizeForQuery ==
  \E i \in 1..Len(clients), title \in Titles, query \in SummaryQueries,
     max_length \in MaxLengths, outcome \in Served :
    Operate(i, "summarize_for_query", <<title, query, max_length>>,
            summarize_for_query(clients[i], title, query, max_length, outcome))

SummarizeSection ==
  \E i \in 1..Len(clients), title \in Titles, section_title \in SectionTitles,
     max_length \in MaxLengths, outcome \in Served :
    Operate(i, "summarize_section", <<title, section_title, max_length>>,
            summarize_section(clients[i], title, section_title, max_length, outcome))

ExtractFacts ==
  \E i \in 1..Len(clients), title \in Titles, topic_within_article \in Topics,
     count \in Counts, outcome \in Served :
    Operate(i, "extract_facts", <<title, topic_within_article, count>>,
            extract_facts(clients[i], title, topic_within_article, count, outcome))

GetCoordinates ==
  \E i \in 1..Len(clients), title \in Titles, outcome \in CoordinatesOutcomes :
    Operate(i, "get_coordinates", <<title>>, get_coordinates(clients[i], title, outcome))

Next ==
  \/ NewClient
  \/ CreateServer
  \/ Main
  \/ TestConnectivity
  \/ Search
  \/ GetArticle
  \/ GetSummary
  \/ GetSections
  \/ GetLinks
  \/ GetRelatedTopics
  \/ SummarizeForQuery
  \/ SummarizeSection
  \/ ExtractFacts
  \/ GetCoordinates

Spec == Init /\ [][Next]_vars

----------------------------------------------------------------------------
(* Properties of the process (Spec)                                        *)

\* C1: every request of a content operation on a client with a variant carries
\* the parameter "variant" with that variant, and no request of a client
\* without a variant carries the parameter.
C1_VariantOnEveryRequest ==
  call.op \in CachedOperations =>
    LET self == clients[call.client] IN
    \A k \in 1..Len(outbound) :
      IF truthy(self.language_variant)
        THEN /\ "variant" \in DOMAIN outbound[k].params
             /\ outbound[k].params.variant = self.language_variant
        ELSE "variant" \notin DOMAIN outbound[k].params

\* The country equals no key of CountryTable, ignoring case and surrounding
\* whitespace.
Unmatched(country) ==
  LET c == str_lower(str_strip(country)) IN
  \A i \in CountryKeys : LoweredKeys[i] # c

\* The clients and servers that exist were all constructed from a country that
\* matches a key, or from no country (None, or the empty string when empty
\* counts as none).
NoneFromUnmatched(empty_is_none) ==
  \A i \in 1..Len(clients) :
    LET country == clients[i].args.country IN
    \/ country = None
    \/ empty_is_none /\ country = <<>>
    \/ ~Unmatched(country)

\* C6 as stated: construction with a country that matches no key of
\* CountryTable, directly, through create_server or through the entry point,
\* fails with a ValueError naming the country, leaves no client and no server,
\* never reaches server.run and issues no request.
C6_AnyUnmatchedCountryFails ==
  /\ NoneFromUnmatched(FALSE)
  /\ ( /\ call.op \in {"WikipediaClient", "create_server"}
       /\ call.args.country # None
       /\ Unmatched(call.args.country) ) =>
       /\ call.ret.exc = "ValueError"
       /\ call.ret.message.country = call.args.country
       /\ outbound = <<>>
  /\ ( /\ call.op = "main"
       /\ call.args.country # None
       /\ Unmatched(call.args.country) ) =>
       /\ call.exit = "configuration_error"
       /\ call.error.country = call.args.country
       /\ outbound = <<>>

\* C6: construction with a non-empty country that matches no key of
\* CountryTable fails, in every step: WikipediaClient and create_server raise
\* a ValueError naming the country and leave the clients and servers as they
\* were; the entry point given such a country does not reach server.run: on a
\* listing request it constructs one client, the default one (language "en",
\* no country), which is gone when it returns, and no server; on the
\* language/country conflict it constructs nothing; otherwise it reports the
\* ValueError of create_server naming the country and no client results; in
\* each case the clients and servers of the process are as before the call.  No client constructed from
\* such a country exists, no server runs on one, and no request is issued.
\* An empty country is no country: the language drives the construction.
C6_UnmatchedCountryFails ==
  [][ /\ clients' # clients => NoneFromUnmatched(TRUE)'
      /\ ( /\ call'.op \in {"WikipediaClient", "create_server"}
           /\ truthy(call'.args.country)
           /\ Unmatched(call'.args.country) ) =>
           /\ call'.ret.exc = "ValueError"
           /\ call'.ret.message.country = call'.args.country
           /\ clients' = clients
           /\ servers' = servers
           /\ outbound' = <<>>
      /\ ( /\ call'.op = "main"
           /\ truthy(call'.args.country)
           /\ Unmatched(call'.args.country) ) =>
           /\ call'.exit \in {"listed", "conflict", "configuration_error"}
           /\ call'.exit = "configuration_error" => call'.error.country = call'.args.country
           /\ call'.exit \in {"conflict", "configuration_error"} => call'.constructed = <<>>
           /\ call'.exit = "listed" =>
                /\ Len(call'.constructed) = 1
                /\ call'.constructed[1].args = [language |-> <<"e","n">>, country |-> None]
           /\ clients' = clients
           /\ servers' = servers
           /\ outbound' = <<>>
      /\ \A s \in 1..Len(servers') :
           (servers'[s].running /\ (s > Len(servers) \/ clients' # clients)) =>
             LET country == clients'[servers'[s].wikipedia_client].args.country IN
             truthy(country) => ~Unmatched(country)
    ]_vars

\* The entry point reported the ValueError of create_server for the country of
\* the environment while a server made earlier exists.
C6_Witness ==
  /\ call.op = "main"
  /\ call.exit = "configuration_error"
  /\ call.args.country = <<"X","X">>
  /\ Len(servers) = 1

----------------------------------------------------------------------------
(* Every operation on one client, with every kind of failure (SpecOps)     *)

\* The ten content operations and test_connectivity.
ContentOperations == CachedOperations

Operations == ContentOperations \cup {"test_connectivity"}

\* WikipediaClient.<op>(self, *key), the method itself without the cache
\* wrapper, when the remote end does outcome.
invoke(self, op, key, outcome) ==
  CASE op = "test_connectivity" -> test_connectivity(self, outcome)
    [] op = "search" -> search(self, key[1], key[2], outcome)
    [] op = "get_article" -> get_article(self, key[1], outcome)
    [] op = "get_summary" -> get_summary(self, key[1], outcome)
    [] op = "get_sections" -> get_sections(self, key[1], outcome)
    [] op = "get_links" -> get_links(self, key[1], outcome)
    [] op = "get_related_topics" -> get_related_topics(self, key[1], key[2], outcome)
    [] op = "summarize_for_query" -> summarize_for_query(self, key[1], key[2], key[3], outcome)
    [] op = "summarize_section" -> summarize_section(self, key[1], key[2], key[3], outcome)
    [] op = "extract_facts" -> extract_facts(self, key[1], key[2], key[3], outcome)
    [] op = "get_coordinates" -> get_coordinates(self, key[1], outcome)

----------------------------------------------------------------------------
(* What the client writes to the log, and its str() and repr()             *)

\* One log record: logger.<level>(text, *values), or an f-string with the
\* values formatted into it.
Line(level, text, values) == [level |-> level, text |-> text, values |-> values]

\* The text of the error search logs for each exception of the transport.
search_error_text(exc) ==
  CASE exc = "Timeout" -> "Search request timed out for query '%s': %s"
    [] exc = "ConnectionError" -> "Connection error when searching for '%s': %s"
    [] exc = "HTTPError" -> "HTTP error when searching for '%s': %s"
    [] exc = "RequestException" -> "Request error when searching for '%s': %s"
    [] exc = "ValueError" -> "JSON decode error when searching for '%s': %s"
    [] OTHER -> "Unexpected error searching Wikipedia for '%s': %s"

\* The records search writes.
search_log(self, query, limit, outcome) ==
  IF Len(query) = 0 \/ Len(str_strip(query)) = 0
    THEN << Line("warning", "Empty search query provided", <<>>) >>
  ELSE
    LET stripped == str_strip(query)
        trimmed_query == IF Len(stripped) > search_max_query
                           THEN SubSeq(stripped, 1, search_max_query) ELSE stripped
        srlimit == IF limit <= 0 THEN search_default_limit
                   ELSE IF limit > search_max_limit THEN search_max_limit ELSE limit
        params == [action |-> "query", format |-> "json", list |-> "search", utf8 |-> 1,
                   srsearch |-> trimmed_query, srlimit |-> srlimit]
        added == _add_variant_to_params(self, <<params>>, 1)
        before ==
          (IF Len(stripped) > search_max_query
             THEN << Line("warning", "Search query too long (%d chars), truncating to 300",
                          <<Len(stripped)>>) >>
             ELSE <<>>)
          \o (IF limit <= 0
                THEN << Line("warning", "Invalid limit %d provided, using default 10",
                             <<limit>>) >>
              ELSE IF limit > search_max_limit
                THEN << Line("warning", "Limit %d exceeds maximum, capping at 500",
                             <<limit>>) >>
              ELSE <<>>)
          \o << Line("debug", "Making search request to %s with params %s",
                     <<self.api_url, added.objects[added.ret]>>) >>
    IN
    IF outcome.kind = "raise"
      THEN before \o << Line("error", search_error_text(outcome.exc),
                             <<trimmed_query, outcome.exc>>) >>
    ELSE IF "error" \in DOMAIN outcome.data
      THEN before \o << Line("error", "Wikipedia API error: %s - %s",
                             << Get(outcome.data["error"], "code", <<"u","n","k","n","o","w","n">>),
                                Get(outcome.data["error"], "info", <<"N","o"," ","d","e","t","a","i","l","s">>) >>) >>
    ELSE
      LET warnings == Get(outcome.data, "warnings", <<>>)
          found == Get(Get(outcome.data, "query", EmptyDict), "search", <<>>)
          untitled == SelectSeq(found, LAMBDA item : ~truthy(Get(item, "title", None)))
      IN
      before
      \o [k \in 1..Len(warnings) |->
            Line("warning", "Wikipedia API warning (%s): %s", warnings[k])]
      \o << Line("info", "Search for '%s' returned %d results",
                 <<trimmed_query, Len(found)>>) >>
      \o [k \in 1..Len(untitled) |->
            Line("warning", "Search result missing title: %s", <<untitled[k]>>)]

\* A client that logs the headers of its requests at debug level.
logged_with_headers(self, op, key, outcome) ==
  << Line("debug", "Request headers: %s", << _get_request_headers(self) >>) >>

\* The records an operation writes, when its method body runs.
logged(self, op, key, outcome) ==
  CASE op = "search" -> search_log(self, key[1], key[2], outcome)
    [] op = "test_connectivity" ->
         << Line("info", "Testing connectivity to",
                 << <<"h","t","t","p","s",":","/","/">> \o self.base_language \o <<".","w","i","k","i","p","e","d","i","a",".","o","r","g","/","w","/","a","p","i",".","p","h","p">> >>) >>
         \o (IF outcome.kind = "raise"
               THEN << Line("error", "Connectivity test failed: %s", <<outcome.exc>>) >>
               ELSE <<>>)
    [] outcome.kind # "raise" -> <<>>
    [] op = "get_article" ->
         << Line("error", "Error getting Wikipedia article:", <<outcome.exc>>) >>
    [] op = "get_summary" ->
         << Line("error", "Error getting Wikipedia summary:", <<outcome.exc>>) >>
    [] op = "get_sections" ->
         << Line("error", "Error getting Wikipedia sections:", <<outcome.exc>>) >>
    [] op = "get_links" ->
         << Line("error", "Error getting Wikipedia links:", <<outcome.exc>>) >>
    [] op = "get_related_topics" ->
         << Line("error", "Error getting related topics:", <<outcome.exc>>) >>
    [] op = "summarize_for_query" ->
         << Line("error", "Error generating query-focused summary for", <<key[1], outcome.exc>>) >>
    [] op = "summarize_section" ->
         << Line("error", "Error summarizing section for article",
                 <<key[2], key[1], outcome.exc>>) >>
    [] op = "extract_facts" ->
         << Line("error", "Error extracting key facts for", <<key[1], outcome.exc>>) >>
    [] op = "get_coordinates" ->
         << Line("error", "Error getting coordinates for Wikipedia article:",
                 <<outcome.exc>>) >>

\* str(client) and repr(client): the class defines neither __str__ nor
\* __repr__, so both are object.__repr__, the name of the class and the
\* address of the object.
repr(self, address) ==
  Message("<wikipedia_mcp.wikipedia_client.WikipediaClient object at>", <<address>>)

\* The clients of the run: one without variant and token, one with both.
OpsClients ==
  { __init__(<<"e","n">>, None, FALSE, None).value,
    __init__(<<"z","h","-","t","w">>, None, FALSE, <<"t","o","k","-","1","2","3">>).value }

\* A title that exists on the site and one that does not.
OpsTitles == { <<"T","a","i","p","e","i">>, <<"N","o","p","e">> }

\* Every exception of the transport.
Failures == { Failed(e) : e \in TransportErrors }

\* What the library may do: fail, or serve the site.
OpsLibraryOutcomes == Failures \cup Served

\* What the API may do with the request of search: fail, report an error,
\* find nothing, answer without a "query" member, or return hits.
OpsSearchOutcomes ==
  Failures \cup SearchOutcomes \cup
  { Body([error |-> [code |-> <<"b","a","d","v","a","l","u","e">>, info |-> <<"U","n","r","e","c","o","g","n","i","z","e","d"," ","v","a","l","u","e">>]]),
    Body([query |-> [search |-> <<>>]]),
    Body(EmptyDict) }

OpsQueries == { <<>>, <<"T","a","i","p","e","i">> }

\* What the API may do with the request of get_coordinates: fail, return no
\* page, a missing page, a page without coordinates, or a page with them.
OpsCoordinatesOutcomes ==
  Failures \cup CoordinatesOutcomes \cup
  { Body(EmptyDict),
    Body([query |-> [pages |-> <<>>]]),
    Body([query |-> [pages |-> << [title |-> <<"N","o","p","e">>, missing |-> <<>>, pageid |-> -1] >>]]),
    Body([query |-> [pages |-> << [title |-> <<"T","a","i","p","e","i">>, pageid |-> 57] >>]]) }

\* What the API may do with the request of test_connectivity.
OpsConnectivityOutcomes ==
  Failures \cup ConnectivityOutcomes \cup { Body([elapsed_ms |-> 3]) }

OpsSummaryQueries == { <<"C","I","T","Y">>, <<"z","z","z">> }

OpsSectionTitles == { <<"h","i","s","t","o","r","y">>, <<"E","a","r","l","y">>, <<"n","o","p","e">> }

OpsTopics == { None, <<"e","a","r","l","y">>, <<"n","o","p","e">> }

InitOps ==
  /\ TablesInit
  /\ clients \in { <<c>> : c \in OpsClients }
  /\ servers = <<>>
  /\ call = NoCall
  /\ outbound = <<>>
  /\ heap = <<>>
  /\ in_country = None

\* clients[i].<op>(*key) on a client without the cache, while the remote end
\* does outcome: the method body runs, sends its requests and writes its log
\* records.
Perform(i, op, key, outcome) ==
  LET r == invoke(clients[i], op, key, outcome) IN
  /\ ~clients[i].enable_cache
  /\ clients' = clients
  /\ call' = [op |-> op, client |-> i, args |-> key, outcome |-> outcome, ret |-> r.ret,
              log |-> logged(clients[i], op, key, outcome)]
  /\ outbound' = r.requests
  /\ UNCHANGED <<COUNTRY_TO_LANGUAGE, LANGUAGE_VARIANTS, servers, heap, in_country>>

OpsTestConnectivity ==
  \E outcome \in OpsConnectivityOutcomes : Perform(1, "test_connectivity", <<>>, outcome)

OpsSearch ==
  \E query \in OpsQueries, limit \in Limits, outcome \in OpsSearchOutcomes :
    Perform(1, "search", <<query, limit>>, outcome)

OpsGetArticle ==
  \E title \in OpsTitles, outcome \in OpsLibraryOutcomes :
    Perform(1, "get_article", <<title>>, outcome)

OpsGetSummary ==
  \E title \in OpsTitles, outcome \in OpsLibraryOutcomes :
    Perform(1, "get_summary", <<title>>, outcome)

OpsGetSections ==
  \E title \in OpsTitles, outcome \in OpsLibraryOutcomes :
    Perform(1, "get_sections", <<title>>, outcome)

OpsGetLinks ==
  \E title \in OpsTitles, outcome \in OpsLibraryOutcomes :
    Perform(1, "get_links", <<title>>, outcome)

OpsGetRelatedTopics ==
  \E title \in OpsTitles, limit \in RelatedLimits, outcome \in OpsLibraryOutcomes :
    Perform(1, "get_related_topics", <<title, limit>>, outcome)

OpsSummarizeForQuery ==
  \E title \in OpsTitles, query \in OpsSummaryQueries, max_length \in MaxLengths,
     outcome \in OpsLibraryOutcomes :
    Perform(1, "summarize_for_query", <<title, query, max_length>>, outcome)

OpsSummarizeSection ==
  \E title \in OpsTitles, section_title \in OpsSectionTitles, max_length \in MaxLengths,
     outcome \in OpsLibraryOutcomes :
    Perform(1, "summarize_section", <<title, section_title, max_length>>, outcome)

OpsExtractFacts ==
  \E title \in OpsTitles, topic_within_article \in OpsTopics, count \in Counts,
     outcome \in OpsLibraryOutcomes :
    Perform(1, "extract_facts", <<title, topic_within_article, count>>, outcome)

OpsGetCoordinates ==
  \E title \in OpsTitles, outcome \in OpsCoordinatesOutcomes :
    Perform(1, "get_coordinates", <<title>>, outcome)

NextOps ==
  \/ OpsTestConnectivity
  \/ OpsSearch
  \/ OpsGetArticle
  \/ OpsGetSummary
  \/ OpsGetSections
  \/ OpsGetLinks
  \/ OpsGetRelatedTopics
  \/ OpsSummarizeForQuery
  \/ OpsSummarizeSection
  \/ OpsExtractFacts
  \/ OpsGetCoordinates

SpecOps == InitOps /\ [][NextOps]_vars

\* C11: every operation returns and never raises, whatever the remote end
\* does; when the transport or the library raises (timeout, connection error,
\* HTTP error, another requests error, a body that is no JSON, any other
\* exception) the operation returns its failure value: search, get_sections,
\* get_links and get_related_topics the empty list, get_summary,
\* summarize_for_query and summarize_section a string that names the error,
\* extract_facts a list of one such string, get_article and get_coordinates a
\* mapping with exists false and the error, test_connectivity a mapping with
\* status "failed", the error and its type.
C11_FailuresInBand ==
  call.op \in Operations =>
    LET value == call.ret.value
        exc == call.outcome.exc
        title == call.args[1]
    IN
    /\ call.ret.exc = "None"
    /\ call.outcome.kind = "raise" =>
         CASE call.op \in {"search", "get_sections", "get_links", "get_related_topics"} ->
                value = <<>>
           [] call.op = "get_summary" ->
                value = Message("Error retrieving summary for", <<title, exc>>)
           [] call.op = "summarize_for_query" ->
                value = Message("Error generating query-focused summary for", <<title, exc>>)
           [] call.op = "summarize_section" ->
                value = Message("Error summarizing section", <<call.args[2], exc>>)
           [] call.op = "extract_facts" ->
                value = << Message("Error extracting key facts for", <<title, exc>>) >>
           [] call.op = "get_article" ->
                value = [title |-> title, exists |-> FALSE, error |-> exc]
           [] call.op = "get_coordinates" ->
                value = [title |-> title, coordinates |-> None, exists |-> FALSE,
                         error |-> exc]
           [] call.op = "test_connectivity" ->
                /\ value.status = "failed"
                /\ value.error = exc
                /\ value.error_type = exc
                /\ DOMAIN value = {"status", "url", "language", "error", "error_type"}

\* C11 witness: get_coordinates, whose request has no timeout, has met a
\* connection error and returned the mapping with exists false.
C11_Witness ==
  /\ call.op = "get_coordinates"
  /\ call.outcome = Failed("ConnectionError")
  /\ call.ret.exc = "None"
  /\ call.ret.value.exists = FALSE
  /\ call.ret.value.error = "ConnectionError"
  /\ Len(outbound) = 1

\* The content the call asked for is absent: the page does not exist, the
\* section is not found or empty, the page has no coordinates, or the search
\* has no hits.
Absent(c, requests) ==
  CASE c.outcome.kind = "raise" -> FALSE
    [] c.op = "search" ->
         /\ requests # <<>>
         /\ "error" \notin DOMAIN c.outcome.data
         /\ Get(Get(c.outcome.data, "query", [search |-> <<>>]), "search", <<>>) = <<>>
    [] c.op = "get_coordinates" ->
         LET pages == Get(Get(c.outcome.data, "query", EmptyDict), "pages", <<>>) IN
         \/ pages = <<>>
         \/ Get(pages[1], "pageid", -1) < 0
         \/ Get(pages[1], "coordinates", <<>>) = <<>>
    [] c.op = "summarize_section" ->
         \/ c.args[1] \notin DOMAIN c.outcome.site
         \/ ~find_section_recursive(c.outcome.site[c.args[1]].sections, c.args[2]).found
    [] c.op \in ContentOperations -> c.args[1] \notin DOMAIN c.outcome.site
    [] OTHER -> FALSE

\* C12: the value an operation returns for absent content differs from the
\* value it returns, for the same arguments, when the transport fails.
C12_AbsenceDistinctFromFailure ==
  (call.op \in ContentOperations /\ Absent(call, outbound)) =>
    \A e \in TransportErrors :
      invoke(clients[call.client], call.op, call.args, Failed(e)).ret # call.ret

----------------------------------------------------------------------------
(* The cache of a client (SpecCache)                                       *)

\* The query of the cached searches.
CacheQuery == <<"t","e","s","t"," ","q","u","e","r","y">>

\* An answer of the API that tells the searches apart: one hit, whose page id
\* is the limit asked for.
Answer(query, limit) ==
  Body([query |-> [search |-> << [title |-> query, snippet |-> <<"a"," ","t","e","s","t">>,
                                  pageid |-> limit] >>]])

\* The limit of the first search of the warm-up (the default limit).
WarmFirst == search_default_limit

\* self after n searches for CacheQuery with the limits WarmFirst,
\* WarmFirst + 1, ... in this order, each a new key answered by Answer:
\* the search cache holds their entries, least recently used first.
searched(self, n) ==
  [self EXCEPT !.lru["search"] =
     [k \in 1..n |->
        [key |-> <<CacheQuery, WarmFirst + k - 1>>,
         ret |-> search(self, CacheQuery, WarmFirst + k - 1,
                        Answer(CacheQuery, WarmFirst + k - 1)).ret]]]

\* A client with the cache that has filled its search cache, a client with
\* the cache that has made no call, and a client without the cache.
WarmClient == searched(__init__(<<"e","n">>, None, TRUE, None).value, lru_maxsize)

ColdClient == __init__(<<"z","h","-","t","w">>, None, TRUE, None).value

PlainClient == __init__(<<"e","n">>, None, FALSE, None).value

\* The limits of the searches of the run: the oldest of the warm-up, and one
\* the warm-up has not used.
CacheLimits == { WarmFirst, WarmFirst + lru_maxsize + 1 }

\* The number of calls that may be in progress at the same time.
MaxThreads == 2

\* A thread that has made no call yet.
Idle == [phase |-> "idle"]

\* What the remote end may do with the requests of an operation.
CacheOutcomes(op) == IF op = "search" THEN SearchOutcomes ELSE CoordinatesOutcomes

\* No call has been made.  The run makes up to MaxThreads calls, each in a
\* thread of its own, so that they follow or overlap each other in any way;
\* call[t] is the call of thread t.
InitCache ==
  /\ TablesInit
  /\ clients \in { <<WarmClient>>, <<ColdClient, ColdClient>>, <<PlainClient>> }
  /\ servers = <<>>
  /\ call = [t \in 1..MaxThreads |-> Idle]
  /\ outbound = <<>>
  /\ heap = <<>>
  /\ in_country = None

\* Thread t calls clients[i].<op>(*key) at a time when the remote end would do
\* outcome.  With the cache the wrapper looks the key up: a hit returns the
\* stored value at once and nothing is sent; a miss, and every call on a
\* client without the cache, enters the method body.
Enter(t, i, op, key, outcome) ==
  LET r == lru_lookup(clients[i], op, key) IN
  /\ call[t].phase = "idle"
  /\ clients' = [clients EXCEPT ![i] = r.self]
  /\ call' = [call EXCEPT ![t] =
                IF r.hit
                  THEN [phase |-> "returned", client |-> i, op |-> op, args |-> key,
                        hit |-> TRUE, outcome |-> outcome, ret |-> r.ret, requests |-> <<>>]
                  ELSE [phase |-> "running", client |-> i, op |-> op, args |-> key]]
  /\ outbound' = <<>>
  /\ UNCHANGED <<COUNTRY_TO_LANGUAGE, LANGUAGE_VARIANTS, servers, heap, in_country>>

CacheSearch ==
  \E t \in DOMAIN call, i \in DOMAIN clients, limit \in CacheLimits,
     outcome \in CacheOutcomes("search") :
    Enter(t, i, "search", <<CacheQuery, limit>>, outcome)

CacheGetCoordinates ==
  \E t \in DOMAIN call, i \in DOMAIN clients, title \in Titles,
     outcome \in CacheOutcomes("get_coordinates") :
    Enter(t, i, "get_coordinates", <<title>>, outcome)

\* The method body of a call in progress sends its requests, the remote end
\* does outcome, the body returns, and with the cache the wrapper stores the
\* value.
CacheReturn ==
  \E t \in DOMAIN call :
    /\ call[t].phase = "running"
    /\ \E outcome \in CacheOutcomes(call[t].op) :
         LET i == call[t].client
             r == invoke(clients[i], call[t].op, call[t].args, outcome)
         IN
         /\ clients' = [clients EXCEPT ![i] = lru_store(clients[i], call[t].op, call[t].args, r.ret)]
         /\ call' = [call EXCEPT ![t] =
                       [phase |-> "returned", client |-> i, op |-> call[t].op,
                        args |-> call[t].args, hit |-> FALSE, outcome |-> outcome,
                        ret |-> r.ret, requests |-> r.requests]]
         /\ outbound' = r.requests
    /\ UNCHANGED <<COUNTRY_TO_LANGUAGE, LANGUAGE_VARIANTS, servers, heap, in_country>>

NextCache == CacheSearch \/ CacheGetCoordinates \/ CacheReturn

SpecCache == InitCache /\ [][NextCache]_vars

\* The elements of a sequence.
Range(s) == { s[n] : n \in DOMAIN s }

\* The positions of a cache that hold an entry for key.
Stored(cache, key) == { n \in 1..Len(cache) : cache[n].key = key }

\* C13: on a client with the cache, a call whose operation and arguments are
\* those of an entry of the cache sends no request and returns the value of
\* that entry, which is the value an earlier call returned; a call with no
\* entry runs the operation, returns its value, and its key is stored when
\* it returns.  On a client without the cache nothing is stored and every
\* call runs the operation and sends its requests (the queries here are not
\* blank).
C13_RepeatedCallServedFromCache ==
  [][ \A t \in DOMAIN call :
        call'[t] # call[t] =>
          LET c == call'[t]
              self == clients[c.client]
              wrapped == c.op \in DOMAIN self.lru
          IN
          IF call[t].phase = "idle"
            THEN IF wrapped /\ Stored(self.lru[c.op], c.args) # {}
                   THEN /\ c.phase = "returned" /\ c.hit
                        /\ c.requests = <<>> /\ outbound' = <<>>
                        /\ \A n \in Stored(self.lru[c.op], c.args) : c.ret = self.lru[c.op][n].ret
                   ELSE /\ c.phase = "running"
                        /\ outbound' = <<>>
                        /\ clients' = clients
            ELSE LET own == invoke(self, c.op, c.args, c.outcome) IN
                 /\ c.phase = "returned" /\ ~c.hit
                 /\ c.client = call[t].client /\ c.op = call[t].op /\ c.args = call[t].args
                 /\ c.requests = own.requests /\ outbound' = own.requests
                 /\ c.ret = own.ret
                 /\ IF wrapped
                      THEN /\ Stored(clients'[c.client].lru[c.op], c.args) # {}
                           /\ Stored(self.lru[c.op], c.args) = {} =>
                                \A n \in Stored(clients'[c.client].lru[c.op], c.args) :
                                  clients'[c.client].lru[c.op][n].ret = c.ret
                      ELSE /\ own.requests # <<>>
                           /\ clients' = clients
                           /\ DOMAIN self.lru = {}
    ]_vars

\* C13 witness: two search("test query") calls one after the other on a fresh
\* client with the cache: the first was answered with hits, sent one request
\* and was stored; the second returned the stored list though the API would
\* now time out, and sent no request.
C13_Witness ==
  /\ Len(clients) = 2
  /\ call[1].phase = "returned" /\ call[2].phase = "returned"
  /\ call[1].client = 1 /\ call[2].client = 1
  /\ call[1].op = "search" /\ call[2].op = "search"
  /\ call[1].args = <<CacheQuery, search_default_limit>>
  /\ call[2].args = call[1].args
  /\ ~call[1].hit /\ Len(call[1].requests) = 1
  /\ call[2].hit /\ call[2].requests = <<>>
  /\ call[2].outcome = Failed("Timeout")
  /\ outbound = <<>>
  /\ Len(call[2].ret.value) = 2
  /\ call[2].ret = call[1].ret
  /\ Len(clients[1].lru["search"]) = 1
  /\ clients[1].lru["search"][1].ret = call[2].ret

\* C14: every call on a client with the cache returns what the same call
\* returns without the cache at that moment, that is what the operation itself
\* returns for what the remote end does at the time of the call.
C14_CacheTransparent ==
  \A t \in DOMAIN call :
    call[t].phase = "returned" =>
      call[t].ret = invoke(clients[call[t].client], call[t].op, call[t].args,
                           call[t].outcome).ret

\* C15: a client with the cache has one cache for each of the ten operations,
\* a client without it has none; a cache never holds more than 128 entries or
\* two entries for one key.  A step of a call changes no cache but the one of
\* its own operation in its own client.  In that cache a hit keeps every
\* entry and makes the key the most recently used, and a miss changes nothing
\* until the call returns; then a key stored in the meantime leaves the cache
\* as it is, and a new key is added as the most recently used, every entry
\* staying unless the cache was full, when the least recently used entry,
\* and no other, leaves.
C15_CachesSeparateAndBounded ==
  [][ \A t \in DOMAIN call :
        call'[t] # call[t] =>
          LET i == call'[t].client
              op == call'[t].op
              key == call'[t].args
          IN
          /\ \A u \in DOMAIN call \ {t} : call'[u] = call[u]
          /\ \A j \in DOMAIN clients' :
               /\ DOMAIN clients'[j].lru =
                    (IF clients'[j].enable_cache THEN CachedOperations ELSE {})
               /\ \A o \in DOMAIN clients'[j].lru :
                    /\ Len(clients'[j].lru[o]) <= 128
                    /\ Cardinality({ e.key : e \in Range(clients'[j].lru[o]) }) =
                         Len(clients'[j].lru[o])
                    /\ (j # i \/ o # op) => clients'[j].lru[o] = clients[j].lru[o]
          /\ op \in DOMAIN clients[i].lru =>
               LET before == clients[i].lru[op]
                   after == clients'[i].lru[op]
               IN
               IF call[t].phase = "idle"
                 THEN after = SelectSeq(before, LAMBDA e : e.key # key)
                              \o SelectSeq(before, LAMBDA e : e.key = key)
                 ELSE IF Stored(before, key) # {}
                        THEN after = before
                        ELSE /\ after[Len(after)].key = key
                             /\ IF Len(before) < 128
                                  THEN SubSeq(after, 1, Len(after) - 1) = before
                                  ELSE SubSeq(after, 1, Len(after) - 1) = Tail(before)
    ]_vars

\* C15 witness: the client whose search cache was full has searched with a new
\* limit: the cache still holds 128 entries, the entry of the first search of
\* the warm-up is gone and the one of the second is now the least recently
\* used, and the entry of get_coordinates is still there.
C15_Witness ==
  /\ Len(clients) = 1
  /\ clients[1].enable_cache
  /\ call[1].phase = "returned"
  /\ call[1].op = "search"
  /\ ~call[1].hit
  /\ call[1].args = <<CacheQuery, WarmFirst + lru_maxsize + 1>>
  /\ outbound # <<>>
  /\ Len(clients[1].lru["search"]) = 128
  /\ Stored(clients[1].lru["search"], <<CacheQuery, WarmFirst>>) = {}
  /\ clients[1].lru["search"][1].key = <<CacheQuery, WarmFirst + 1>>
  /\ clients[1].lru["search"][128].key = call[1].args
  /\ Len(clients[1].lru["get_coordinates"]) = 1

----------------------------------------------------------------------------
(* Calls in progress at the same time on one client (SpecConcurrent)       *)
(*                                                                         *)
(* The server may run several tool calls on its one client at a time.  A   *)
(* wrapped operation is three steps: the wrapper looks its key up (under   *)
(* the lock of the cache), the method body runs and sends its requests     *)
(* (no lock held), and the wrapper stores the value (under the lock).  In  *)
(* this specification call[t] is the call of thread t and outbound the     *)
(* requests sent by the last step.                                         *)

\* The calls the threads make.
ConcurrentCalls ==
  { [op |-> "search", args |-> <<CacheQuery, limit>>] : limit \in CacheLimits }
  \cup { [op |-> "get_coordinates", args |-> <<title>>] : title \in Titles }

\* What the remote end does with the requests of a call: a search gets the
\* answer that names its limit.
ConcurrentOutcomes(op, args) ==
  IF op = "search" THEN { Answer(args[1], args[2]) } ELSE CoordinatesOutcomes

InitConcurrent ==
  /\ TablesInit
  /\ clients \in { <<WarmClient>>, <<ColdClient>> }
  /\ servers = <<>>
  /\ call = [t \in 1..MaxThreads |-> Idle]
  /\ outbound = <<>>
  /\ heap = <<>>
  /\ in_country = None

\* A thread that is not inside a call calls an operation: the wrapper looks
\* the key up; a hit returns at once, a miss enters the method body.
Invoke ==
  \E t \in DOMAIN call, c \in ConcurrentCalls :
    LET r == lru_lookup(clients[1], c.op, c.args) IN
    /\ call[t].phase # "running"
    /\ clients' = [clients EXCEPT ![1] = r.self]
    /\ call' = [call EXCEPT ![t] =
                  IF r.hit
                    THEN [phase |-> "returned", op |-> c.op, args |-> c.args, hit |-> TRUE,
                          ret |-> r.ret, requests |-> <<>>]
                    ELSE [phase |-> "running", op |-> c.op, args |-> c.args]]
    /\ outbound' = <<>>
    /\ UNCHANGED <<COUNTRY_TO_LANGUAGE, LANGUAGE_VARIANTS, servers, heap, in_country>>

\* The method body of a running call sends its requests, the remote end does
\* outcome, the body returns and the wrapper stores the value.
Complete ==
  \E t \in DOMAIN call :
    /\ call[t].phase = "running"
    /\ \E outcome \in ConcurrentOutcomes(call[t].op, call[t].args) :
         LET r == invoke(clients[1], call[t].op, call[t].args, outcome) IN
         /\ clients' = [clients EXCEPT ![1] = lru_store(clients[1], call[t].op, call[t].args, r.ret)]
         /\ call' = [call EXCEPT ![t] =
                       [phase |-> "returned", op |-> call[t].op, args |-> call[t].args,
                        hit |-> FALSE, outcome |-> outcome, ret |-> r.ret,
                        requests |-> r.requests]]
         /\ outbound' = r.requests
    /\ UNCHANGED <<COUNTRY_TO_LANGUAGE, LANGUAGE_VARIANTS, servers, heap, in_country>>

NextConcurrent == Invoke \/ Complete

SpecConcurrent == InitConcurrent /\ [][NextConcurrent]_vars

\* C16: with calls of several threads interleaved on one client, in every
\* step: the locale of the client stays as it is; no cache holds more than
\* 128 entries or two entries for one key, and every entry added holds the
\* key and the value of the call that added it; a call that returns from the
\* cache returns the value stored under its own operation and arguments and
\* has sent nothing; a search returns the answer to its own query and limit; a call that ran its method body returns what the method
\* computes for its own arguments and has sent the requests of that one run,
\* once; the calls of the other threads are not touched.
C16_InterleavedCallsSafe ==
  [][ /\ Locale(clients'[1]) = Locale(clients[1])
      /\ \A o \in DOMAIN clients'[1].lru :
           /\ Len(clients'[1].lru[o]) <= 128
           /\ Cardinality({ e.key : e \in Range(clients'[1].lru[o]) }) = Len(clients'[1].lru[o])
      /\ \A t \in DOMAIN call :
           call'[t] # call[t] =>
             /\ \A u \in DOMAIN call \ {t} : call'[u] = call[u]
             /\ \A o \in DOMAIN clients[1].lru \ {call'[t].op} :
                  clients'[1].lru[o] = clients[1].lru[o]
             /\ call'[t].phase = "running" =>
                  /\ Stored(clients[1].lru[call'[t].op], call'[t].args) = {}
                  /\ clients' = clients
                  /\ outbound' = <<>>
             /\ (call'[t].phase = "returned" /\ call'[t].op = "search") =>
                  /\ Len(call'[t].ret.value) = 1
                  /\ call'[t].ret.value[1].title = call'[t].args[1]
                  /\ call'[t].ret.value[1].pageid = call'[t].args[2]
             /\ (call'[t].phase = "returned" /\ call'[t].hit) =>
                  /\ \E n \in Stored(clients[1].lru[call'[t].op], call'[t].args) :
                       clients[1].lru[call'[t].op][n].ret = call'[t].ret
                  /\ call'[t].requests = <<>>
                  /\ outbound' = <<>>
             /\ (call'[t].phase = "returned" /\ ~call'[t].hit) =>
                  LET own == invoke(clients[1], call[t].op, call[t].args, call'[t].outcome)
                      before == clients[1].lru[call[t].op]
                      after == clients'[1].lru[call[t].op]
                  IN
                  /\ call[t].phase = "running"
                  /\ call'[t].op = call[t].op /\ call'[t].args = call[t].args
                  /\ call'[t].ret = own.ret
                  /\ call'[t].requests = own.requests
                  /\ outbound' = own.requests
                  /\ IF Stored(before, call[t].args) # {}
                       THEN after = before
                       ELSE /\ after[Len(after)] = [key |-> call[t].args, ret |-> call'[t].ret]
                            /\ SubSeq(after, 1, Len(after) - 1) =
                                 (IF Len(before) < 128 THEN before ELSE Tail(before))
    ]_vars

\* C16 witness: two threads missed the same new search at the same time on
\* the client whose search cache was full: each sent one request and returned
\* the answer to its own search, the cache still holds 128 entries, one of
\* them for the key, and one entry of the warm-up, not two, was dropped.
C16_Witness ==
  /\ call[1].phase = "returned" /\ call[2].phase = "returned"
  /\ call[1].op = "search" /\ call[2].op = "search"
  /\ call[1].args = call[2].args
  /\ ~call[1].hit /\ ~call[2].hit
  /\ call[1].ret.value[1].pageid = call[1].args[2]
  /\ call[1].ret = call[2].ret
  /\ Len(call[1].requests) = 1 /\ Len(call[2].requests) = 1
  /\ Len(clients[1].lru["search"]) = 128
  /\ clients[1].lru["search"][1].key = <<CacheQuery, WarmFirst + 1>>
  /\ clients[1].lru["search"][128].key = call[1].args

----------------------------------------------------------------------------
(* Clients made and called while the process runs (SpecLifetime)           *)
(*                                                                         *)
(* Clients with and without the cache are constructed, directly and by     *)
(* create_server, while content operations are called on the clients that  *)
(* exist, one call per client, the calls on different clients overlapping  *)
(* each other and the constructions in any way.  What a step writes to an  *)
(* object: __init__ sets the attributes of the new instance, and the       *)
(* wrappers of a client with the cache keep their entries in that          *)
(* instance; the method bodies assign nothing.  call[i] is the call made   *)
(* on client i.  Calls that overlap on one client are the subject of       *)
(* SpecConcurrent.                                                         *)

\* WikipediaClient(...) as called in this run: by country, with the cache.
LifetimeArguments ==
  { [language |-> <<"e","n">>, country |-> <<" ","t","w"," ">>, enable_cache |-> TRUE] }

\* create_server(...) as called in this run: by language, without the cache.
LifetimeServerArguments ==
  { [language |-> <<"s","r","-","l","a","t","n">>, country |-> <<>>, enable_cache |-> FALSE] }

\* The calls the threads make: each content operation once.
LifetimeCalls ==
  { [op |-> "search", args |-> <<query, limit>>] : query \in Queries, limit \in Limits }
  \cup { [op |-> o, args |-> <<title>>] :
           o \in {"get_article", "get_summary", "get_sections", "get_links", "get_coordinates"},
           title \in Titles }
  \cup { [op |-> "get_related_topics", args |-> <<title, limit>>] :
           title \in Titles, limit \in RelatedLimits }
  \cup { [op |-> "summarize_for_query", args |-> <<title, query, max_length>>] :
           title \in Titles, query \in SummaryQueries, max_length \in MaxLengths }
  \cup { [op |-> "summarize_section", args |-> <<title, section_title, max_length>>] :
           title \in Titles, section_title \in SectionTitles, max_length \in MaxLengths }
  \cup { [op |-> "extract_facts", args |-> <<title, topic_within_article, count>>] :
           title \in Titles, topic_within_article \in Topics, count \in Counts }

\* What the remote end does with the requests of an operation.
LifetimeOutcomes(op) ==
  CASE op = "search" -> SearchOutcomes
    [] op = "get_coordinates" -> CoordinatesOutcomes
    [] OTHER -> Served

\* __init__ that assigns the locale to the class (WikipediaClient.base_language
\* = ...) instead of the instance: every object reads the values of the
\* client made last.
constructed_class_attributes(objects, r) ==
  IF r.exc # "None" THEN objects
  ELSE Append([i \in 1..Len(objects) |->
                 [objects[i] EXCEPT !.base_language = r.value.base_language,
                                    !.language_variant = r.value.language_variant,
                                    !.api_url = r.value.api_url]],
              r.value)

\* The objects of the process once WikipediaClient(...) has returned or
\* raised r: __init__ assigns attributes of the new instance only
\* (self.<name> = ...), so the objects made earlier are as they were, and an
\* exception leaves no object.
constructed(objects, r) ==
  IF r.exc # "None" THEN objects ELSE Append(objects, r.value)

InitLifetime ==
  /\ TablesInit
  /\ clients = <<>>
  /\ servers = <<>>
  /\ call = [t \in 1..MaxClients |-> Idle]
  /\ outbound = <<>>
  /\ heap = <<>>
  /\ in_country = None

\* client = WikipediaClient(language=..., country=..., enable_cache=...)
LifetimeNewClient ==
  /\ Len(clients) < MaxClients
  /\ \E a \in LifetimeArguments :
       /\ clients' = constructed(clients, __init__(a.language, a.country, a.enable_cache, None))
       /\ outbound' = <<>>
       /\ UNCHANGED <<COUNTRY_TO_LANGUAGE, LANGUAGE_VARIANTS, servers, call, heap, in_country>>

\* server = create_server(language=..., country=..., enable_cache=...)
LifetimeCreateServer ==
  /\ Len(clients) < MaxClients
  /\ \E a \in LifetimeServerArguments :
       LET r == create_server(a.language, a.country, a.enable_cache, None) IN
       /\ r.exc = "None"
       /\ clients' = constructed(clients, Return(r.value.wikipedia_client))
       /\ servers' = Append(servers, [name |-> r.value.name,
                                      wikipedia_client |-> Len(clients) + 1,
                                      running |-> FALSE])
       /\ outbound' = <<>>
       /\ UNCHANGED <<COUNTRY_TO_LANGUAGE, LANGUAGE_VARIANTS, call, heap, in_country>>

\* A content operation is called on a client that exists and has not been
\* called yet.
LifetimeCall ==
  \E i \in DOMAIN clients, c \in LifetimeCalls :
    \E outcome \in LifetimeOutcomes(c.op) :
      Enter(i, i, c.op, c.args, outcome)

\* The method body of a call in progress sends its requests and returns, and
\* with the cache the wrapper stores the value.
LifetimeReturn ==
  \E t \in DOMAIN call :
    /\ call[t].phase = "running"
    /\ \E outcome \in LifetimeOutcomes(call[t].op) :
         LET i == call[t].client
             r == invoke(clients[i], call[t].op, call[t].args, outcome)
         IN
         /\ clients' = [clients EXCEPT ![i] = lru_store(clients[i], call[t].op, call[t].args, r.ret)]
         /\ call' = [call EXCEPT ![t] =
                       [phase |-> "returned", client |-> i, op |-> call[t].op,
                        args |-> call[t].args, hit |-> FALSE, outcome |-> outcome,
                        ret |-> r.ret, requests |-> r.requests]]
         /\ outbound' = r.requests
    /\ UNCHANGED <<COUNTRY_TO_LANGUAGE, LANGUAGE_VARIANTS, servers, heap, in_country>>

NextLifetime ==
  \/ LifetimeNewClient
  \/ LifetimeCreateServer
  \/ LifetimeCall
  \/ LifetimeReturn

SpecLifetime == InitLifetime /\ [][NextLifetime]_vars

\* C7: in every step of the process (the construction of another client, the
\* cache lookup of a call, the return of a method body and the store of its
\* value, on any client while calls on other clients are in progress) every
\* client that existed before the step is still there with the base
\* language, the variant and the endpoint it had, so each instance keeps the
\* values its construction computed; and the two tables are as the class body
\* defines them.
C7_LocaleFixed ==
  [][ /\ COUNTRY_TO_LANGUAGE' = CountryTable
      /\ LANGUAGE_VARIANTS' = VariantTable
      /\ Len(clients') >= Len(clients)
      /\ \A i \in 1..Len(clients) : Locale(clients'[i]) = Locale(clients[i])
    ]_vars

\* C7 witness: two clients with different base languages exist, the one with
\* a variant holds an entry its wrapper stored after it was constructed, and
\* a call on the other has sent its requests and returned.
C7_Witness ==
  /\ Len(clients) = 2
  /\ clients[1].base_language # clients[2].base_language
  /\ \E i \in 1..2, t \in DOMAIN call :
       /\ truthy(clients[i].language_variant)
       /\ \E o \in DOMAIN clients[i].lru : Len(clients[i].lru[o]) > 0
       /\ call[i].phase = "returned"
       /\ call[t].phase = "returned"
       /\ call[t].client # i
       /\ Len(call[t].requests) > 0

----------------------------------------------------------------------------
(* Headers and timeouts of the requests (SpecOps)                          *)

\* C17: every request an operation sends carries the User-Agent of the client,
\* the header Authorization: Bearer <access_token> when the client was given
\* a token, and no Authorization header when it was given none.
C17_HeadersOnEveryRequest ==
  call.op \in Operations =>
    \A n \in 1..Len(outbound) :
      LET self == clients[call.client]
          headers == outbound[n].headers
      IN
      /\ "User-Agent" \in DOMAIN headers
      /\ headers["User-Agent"] = self.user_agent
      /\ truthy(self.access_token) =>
           /\ "Authorization" \in DOMAIN headers
           /\ headers["Authorization"] = <<"B","e","a","r","e","r"," ">> \o self.access_token
      /\ ~truthy(self.access_token) => "Authorization" \notin DOMAIN headers

\* C19: every request an operation sends is given a timeout, a positive
\* number of seconds, so that the operation returns even if the remote end
\* never answers.
C19_TimeoutOnEveryRequest ==
  call.op \in Operations =>
    \A n \in 1..Len(outbound) :
      /\ "timeout" \in DOMAIN outbound[n]
      /\ outbound[n].timeout > 0

----------------------------------------------------------------------------
(* What search transmits (SpecSearch)                                      *)

\* A string of n characters c.
Repeated(c, n) == [k \in 1..n |-> c]

\* The queries: empty, blank, padded, exactly as long as the longest query
\* transmitted, longer, and longer with a space at the place of the cut.
SearchQueries ==
  { <<>>, <<" "," "," ">>, <<" ">> \o <<"\t", "\n">>, <<" ","T","a","i","p","e","i"," ","1","0","1"," ">>, <<"\t">> \o <<"T","a","i","p","e","i">> \o <<"\n">>,
    Repeated("a", search_max_query),
    Repeated("a", search_max_query + 1),
    <<" "," ">> \o Repeated("b", search_max_query - 1) \o <<" ">> \o Repeated("c", 5) \o <<" ">> }

\* The limits: around the least and the greatest limit transmitted.
SearchLimits == { -3, 0, 1, search_default_limit, search_max_limit - 1, search_max_limit,
                  search_max_limit + 1, 1000 }

\* The run starts with the client and the arguments of the one search it
\* makes, and what the API will do with the request.
InitSearch ==
  /\ TablesInit
  /\ clients \in { <<c>> : c \in OpsClients }
  /\ servers = <<>>
  /\ call \in { [op |-> "none", args |-> <<query, limit>>, outcome |-> outcome] :
                  query \in SearchQueries, limit \in SearchLimits,
                  outcome \in SearchOutcomes }
  /\ outbound = <<>>
  /\ heap = <<>>
  /\ in_country = None

\* clients[1].search(query, limit)
SearchOnce ==
  /\ call.op = "none"
  /\ Perform(1, "search", call.args, call.outcome)

NextSearch == SearchOnce

SpecSearch == InitSearch /\ [][NextSearch]_vars

\* The positions of s that hold a character that is not whitespace.
Solid(s) == { k \in 1..Len(s) : s[k] \notin whitespace }

\* C20: search (the method itself, on a client without the cache) sends
\* nothing and returns the empty list for a query that is empty or all
\* whitespace; for any other query it sends exactly one request, whose
\* srsearch is the query without its leading and trailing whitespace, cut to
\* its first 300 characters when longer, and whose srlimit is the limit when
\* 1 <= limit <= 500, 10 when limit <= 0 and 500 when limit > 500.
C20_SearchTransmitsNormalized ==
  call.op = "search" =>
    LET query == call.args[1]
        limit == call.args[2]
    IN
    IF Solid(query) = {}
      THEN /\ outbound = <<>>
           /\ call.ret.exc = "None"
           /\ call.ret.value = <<>>
      ELSE LET first == CHOOSE k \in Solid(query) : \A m \in Solid(query) : k <= m
               last == CHOOSE k \in Solid(query) : \A m \in Solid(query) : k >= m
               trimmed == SubSeq(query, first, last)
           IN
           /\ Len(outbound) = 1
           /\ outbound[1].params.srsearch =
                (IF Len(trimmed) > 300 THEN SubSeq(trimmed, 1, 300) ELSE trimmed)
           /\ Len(outbound[1].params.srsearch) <= 300
           /\ outbound[1].params.srlimit =
                (IF limit <= 0 THEN 10 ELSE IF limit > 500 THEN 500 ELSE limit)
           /\ outbound[1].params.srlimit \in 1..500

\* C20 witness: a padded query of 306 characters was searched with limit 1000:
\* the request carries its first 300 characters after the padding, ending in
\* the space that stood at the place of the cut, and the limit 500.
C20_Witness ==
  /\ call.op = "search"
  /\ Len(call.args[1]) > search_max_query + 5
  /\ call.args[1][1] = " "
  /\ call.args[2] = 1000
  /\ Len(outbound) = 1
  /\ Len(outbound[1].params.srsearch) = 300
  /\ outbound[1].params.srsearch[1] = "b"
  /\ outbound[1].params.srsearch[300] = " "
  /\ outbound[1].params.srlimit = 500

----------------------------------------------------------------------------
(* The access token and the log (SpecOps)                                  *)

\* Token values a client may have been constructed with.
Tokens == { None, <<"t","o","k","-","1","2","3">>, <<"a","n","o","t","h","e","r","-","t","o","k","e","n">> }

\* C18: the log records of every call, failed or not, and the str() and
\* repr() of the client are the same whatever token the client was
\* constructed with: the client given any other token, or none, writes the
\* same records for the same call and the same behaviour of the remote end,
\* and shows the same representation.
C18_TokenNotObservable ==
  call.op \in Operations =>
    \A token \in Tokens :
      LET self == clients[call.client]
          other == __init__(self.args.language, self.args.country, self.enable_cache,
                            token).value
      IN
      /\ other.access_token = token
      /\ logged(other, call.op, call.args, call.outcome) = call.log
      /\ repr(other, call.client) = repr(self, call.client)

\* C18 witness: the client with the token has searched and the request failed:
\* the request carried the token, and the call wrote a debug record with the
\* parameters and an error record.
C18_Witness ==
  /\ call.op = "search"
  /\ clients[call.client].access_token = <<"t","o","k","-","1","2","3">>
  /\ call.outcome = Failed("HTTPError")
  /\ Len(outbound) = 1
  /\ outbound[1].headers["Authorization"] = <<"B","e","a","r","e","r"," ","t","o","k","-","1","2","3">>
  /\ Len(call.log) = 2
  /\ call.log[1].level = "debug"
  /\ call.log[2] = Line("error", "HTTP error when searching for '%s': %s",
                        <<<<"T","a","i","p","e","i">>, "HTTPError">>)

----------------------------------------------------------------------------
(* The coordinates of a page (SpecCoordinates)                             *)

\* Coordinate entries as the API returns them: with the primary flag set,
\* cleared and absent, with and without the descriptive members.
CoordinateEntries ==
  { [lat |-> 40, lon |-> -74, primary |-> TRUE, globe |-> <<"e","a","r","t","h">>, type |-> <<"l","a","n","d","m","a","r","k">>,
     name |-> <<"M","a","i","n"," ","l","o","c","a","t","i","o","n">>],
    [lat |-> 41, lon |-> -75, primary |-> FALSE, globe |-> <<"e","a","r","t","h">>, type |-> <<"r","e","g","i","o","n">>,
     name |-> <<"S","e","c","o","n","d","a","r","y"," ","l","o","c","a","t","i","o","n">>],
    [lat |-> 25, lon |-> 121],
    [lat |-> -33, lon |-> 151, primary |-> TRUE] }

\* The coordinate lists of a page: up to three entries in any order, an
\* entry possibly more than once.
CoordinateLists ==
  { <<>> } \cup { <<a>> : a \in CoordinateEntries }
  \cup { <<a, b>> : a \in CoordinateEntries, b \in CoordinateEntries }
  \cup { <<a, b, c>> : a \in CoordinateEntries, b \in CoordinateEntries,
                       c \in CoordinateEntries }

\* The pages of a response: an existing page with the list (under the asked
\* title or the title a redirect led to), and a missing page.
CoordinatesBodies ==
  { Body([query |-> [pages |-> << [title |-> t, pageid |-> 345678, coordinates |-> l] >>]]) :
      t \in { <<"T","a","i","p","e","i">>, <<"T","a","i","p","e","i"," ","C","i","t","y">> }, l \in CoordinateLists }
  \cup { Body([query |-> [pages |-> << [title |-> <<"T","a","i","p","e","i">>, missing |-> <<>>] >>]]) }

\* The run starts with the client and what the API will answer to the one
\* get_coordinates it makes.
InitCoordinates ==
  /\ TablesInit
  /\ clients \in { <<c>> : c \in OpsClients }
  /\ servers = <<>>
  /\ call \in { [op |-> "none", args |-> << <<"T","a","i","p","e","i">> >>, outcome |-> outcome] :
                  outcome \in CoordinatesBodies \cup { Failed("Timeout") } }
  /\ outbound = <<>>
  /\ heap = <<>>
  /\ in_country = None

\* clients[1].get_coordinates(title)
CoordinatesOnce ==
  /\ call.op = "none"
  /\ Perform(1, "get_coordinates", call.args, call.outcome)

NextCoordinates == CoordinatesOnce

SpecCoordinates == InitCoordinates /\ [][NextCoordinates]_vars

\* C21: get_coordinates, when the first page of the response exists (its
\* pageid is not negative) and has n >= 1 coordinate entries, returns exists
\* true, error None and a coordinates list of exactly n entries, the k-th
\* carrying the latitude, longitude and primary flag of the k-th entry of the
\* response, primary being False for an entry without the flag.
C21_CoordinatesInApiOrder ==
  (/\ call.op = "get_coordinates"
   /\ call.outcome.kind = "json"
   /\ "coordinates" \in DOMAIN call.outcome.data.query.pages[1]
   /\ call.outcome.data.query.pages[1].pageid >= 0
   /\ Len(call.outcome.data.query.pages[1].coordinates) >= 1)
  =>
    LET entries == call.outcome.data.query.pages[1].coordinates
        value == call.ret.value
    IN
    /\ call.ret.exc = "None"
    /\ value.exists = TRUE
    /\ value.error = None
    /\ Len(value.coordinates) = Len(entries)
    /\ \A k \in 1..Len(entries) :
         /\ value.coordinates[k].latitude = entries[k].lat
         /\ value.coordinates[k].longitude = entries[k].lon
         /\ value.coordinates[k].primary =
              (IF "primary" \in DOMAIN entries[k] THEN entries[k].primary ELSE FALSE)

\* C21 witness: the page had three entries, the first without the flag, the
\* second not primary and the third primary, and the call returned the three
\* in that order.
C21_Witness ==
  /\ call.op = "get_coordinates"
  /\ call.outcome.kind = "json"
  /\ call.ret.value.exists = TRUE
  /\ Len(call.ret.value.coordinates) = 3
  /\ call.ret.value.coordinates[1] =
       [latitude |-> 25, longitude |-> 121, primary |-> FALSE, globe |-> <<"e","a","r","t","h">>,
        type |-> <<>>, name |-> <<>>, region |-> <<>>, country |-> <<>>]
  /\ call.ret.value.coordinates[2].primary = FALSE
  /\ call.ret.value.coordinates[2].latitude = 41
  /\ call.ret.value.coordinates[3].primary = TRUE
  /\ call.ret.value.coordinates[3].longitude = -74
----------------------------------------------------------------------------
(* The facts of a text (SpecFacts)                                         *)

\* Source texts: the four sentences of the example, a text without a period,
\* one whose last sentence has none, blank and padded sentences, periods
\* only, whitespace only, and the empty text.
FactTexts ==
  { <<"F","a","c","t"," ","o","n","e","."," ","F","a","c","t"," ","t","w","o","."," ","F","a","c","t"," ","t","h","r","e","e","."," ","F","a","c","t"," ","f","o","u","r",".">>,
    <<"N","o"," ","p","e","r","i","o","d">>,
    <<"O","n","e","."," ","T","w","o">>,
    <<" ","A"," ","."," "," ","."," ","B",".","."," ","C"," ">>,
    <<".",".",".">>,
    <<" ">> \o <<"\t">>,
    <<>> }

FactCounts == { -2, -1, 0, 1, 2, 3, 4, 5 }

\* A site with one page of the given summary, whose section History has the
\* given text.
FactSite(summary, section_text) ==
  <<"T","a","i","p","e","i">> :>
    [ exists |-> TRUE, title |-> <<"T","a","i","p","e","i">>, pageid |-> 57, summary |-> summary,
      text |-> summary \o section_text, fullurl |-> <<"w","i","k","i","/","T","a","i","p","e","i">>,
      sections |-> << [title |-> <<"H","i","s","t","o","r","y">>, text |-> section_text, sections |-> <<>>] >>,
      categories |-> <<>>, links |-> <<>> ]

\* The run starts with the client, the arguments of the one extract_facts it
\* makes and the page the library will serve.
InitFacts ==
  /\ TablesInit
  /\ clients \in { <<c>> : c \in OpsClients }
  /\ servers = <<>>
  /\ call \in { [op |-> "none", args |-> << <<"T","a","i","p","e","i">>, topic, count >>,
                 outcome |-> [kind |-> "site", site |-> FactSite(summary, section_text)]] :
                  topic \in { None, <<"h","i","s","t","o","r","y">> }, count \in FactCounts,
                  summary \in FactTexts,
                  section_text \in { <<>>, <<"O","l","d"," ","t","o","w","n","."," ","P","o","r","t","."," ","F","o","r","t",".">> } }
  /\ outbound = <<>>
  /\ heap = <<>>
  /\ in_country = None

\* clients[1].extract_facts(title, topic_within_article, count)
FactsOnce ==
  /\ call.op = "none"
  /\ Perform(1, "extract_facts", call.args, call.outcome)

NextFacts == FactsOnce

SpecFacts == InitFacts /\ [][NextFacts]_vars

\* The places where a text is cut into sentences: before its first
\* character, at each period and after its last character.
Cuts(text) == {0, Len(text) + 1} \cup { k \in 1..Len(text) : text[k] = "." }

\* The sentences of a text that are not blank, each as the pair of cuts
\* around it.
Pieces(text) ==
  { p \in Cuts(text) \X Cuts(text) :
      /\ p[1] < p[2]
      /\ \A c \in Cuts(text) : ~(p[1] < c /\ c < p[2])
      /\ \E k \in (p[1] + 1)..(p[2] - 1) : text[k] \notin whitespace }

\* The n-th such sentence without the whitespace around it, and a period.
Fact(text, n) ==
  LET p == CHOOSE q \in Pieces(text) :
             Cardinality({ r \in Pieces(text) : r[1] < q[1] }) = n - 1
      solid == { k \in (p[1] + 1)..(p[2] - 1) : text[k] \notin whitespace }
  IN SubSeq(text, CHOOSE k \in solid : \A m \in solid : k <= m,
                  CHOOSE k \in solid : \A m \in solid : k >= m) \o <<".">>

\* C22: extract_facts on a page whose source text (the summary, or the text
\* of the section the topic names when it has one) has sentences returns,
\* for every count, the first sentences of the text in order, each trimmed
\* and followed by one period: as many as the text has when that is at most
\* count, and count of them otherwise (none for a count below zero), so never
\* more than count elements.
C22_FactsUpToCount ==
  (/\ call.op = "extract_facts"
   /\ call.outcome.kind = "site")
  =>
    LET page == call.outcome.site[call.args[1]]
        source == IF call.args[2] # None /\ page.sections[1].text # <<>>
                    THEN page.sections[1].text ELSE page.summary
        count == IF call.args[3] < 0 THEN 0 ELSE call.args[3]
        available == Cardinality(Pieces(source))
        facts == call.ret.value
    IN
    available > 0 =>
      /\ Len(facts) <= count
      /\ Len(facts) = (IF available <= count THEN available ELSE count)
      /\ \A n \in 1..Len(facts) : facts[n] = Fact(source, n)
----------------------------------------------------------------------------
(* The topics related to a page (SpecRelated)                              *)

\* The links of a page (the keys of a mapping, so each title once): up to
\* three titles, each of a page that exists (Taiwan, Tamsui) or of one that
\* does not (Ghost).
RelatedLinkLists ==
  LET targets == { <<"T","a","i","w","a","n">>, <<"G","h","o","s","t">>, <<"T","a","m","s","u","i">> } IN
  { l \in { <<>> } \cup { <<a>> : a \in targets }
           \cup { <<a, b>> : a \in targets, b \in targets }
           \cup { <<a, b, c>> : a \in targets, b \in targets, c \in targets } :
      \A n \in 1..Len(l), m \in 1..Len(l) : l[n] = l[m] => n = m }

RelatedCategoryLists ==
  { <<>>, << <<"C","a","t","e","g","o","r","y",":","C","i","t","i","e","s">> >>, << <<"C","a","t","e","g","o","r","y",":","C","i","t","i","e","s">>, <<"C","a","t","e","g","o","r","y",":","C","a","p","i","t","a","l","s">>, <<"P","o","r","t","s">> >> }

RelatedLimitInputs == { -2, -1, 0, 1, 2, 3, 4, 10 }

\* The site with the page asked for, given its links and categories.
RelatedSite(links, categories) ==
  (<<"T","a","i","p","e","i">> :> [PageTaipei EXCEPT !.links = links, !.categories = categories])
  @@ (<<"T","a","i","w","a","n">> :> PageTaiwan) @@ (<<"T","a","m","s","u","i">> :> PageTamsui)

\* The run starts with the client, the arguments of the one
\* get_related_topics it makes and the site the library will serve.
InitRelated ==
  /\ TablesInit
  /\ clients \in { <<c>> : c \in OpsClients }
  /\ servers = <<>>
  /\ call \in { [op |-> "none", args |-> << <<"T","a","i","p","e","i">>, limit >>,
                 outcome |-> [kind |-> "site", site |-> RelatedSite(links, categories)]] :
                  limit \in RelatedLimitInputs, links \in RelatedLinkLists,
                  categories \in RelatedCategoryLists }
  /\ outbound = <<>>
  /\ heap = <<>>
  /\ in_country = None

\* clients[1].get_related_topics(title, limit)
RelatedOnce ==
  /\ call.op = "none"
  /\ Perform(1, "get_related_topics", call.args, call.outcome)

NextRelated == RelatedOnce

SpecRelated == InitRelated /\ [][NextRelated]_vars

\* C23: get_related_topics returns at most limit items (none for a limit
\* below zero): the items of type "link" come before those of type
\* "category"; the link items are, in link order, the first links of the page
\* that exist; the linked pages were asked for one after the other in link
\* order; and the category items are the first categories of the page, no
\* more of them than the slots the links left.
C23_RelatedWithinLimit ==
  (/\ call.op = "get_related_topics"
   /\ call.outcome.kind = "site")
  =>
    LET site == call.outcome.site
        page == site[call.args[1]]
        limit == IF call.args[2] < 0 THEN 0 ELSE call.args[2]
        items == call.ret.value
        links == { n \in 1..Len(items) : items[n].type = "link" }
        categories == { n \in 1..Len(items) : items[n].type = "category" }
        existing == SelectSeq(page.links, LAMBDA l : l \in DOMAIN site)
        asked == [n \in 1..(Len(outbound) - 3) |-> outbound[n + 3]]
        lookups == SelectSeq(asked, LAMBDA r : r.params.prop = "info")
    IN
    /\ Len(items) <= limit
    /\ links \cup categories = 1..Len(items)
    /\ \A n \in links, m \in categories : n < m
    /\ Cardinality(links) <= Len(existing)
    /\ \A n \in links : items[n].title = existing[n]
    /\ Len(lookups) <= Len(page.links)
    /\ \A n \in 1..Len(lookups) : lookups[n].params.titles = page.links[n]
    /\ Cardinality(categories) <= limit - Cardinality(links)
    /\ Cardinality(categories) <= Len(page.categories)
----------------------------------------------------------------------------
(* The snippet around a query (SpecSnippet)                                *)

\* Article texts: several sentences, a short text, and one word.
SnippetTexts == { <<"T","a","i","p","e","i"," ","i","s"," ","a"," ","c","i","t","y","."," ","I","t"," ","i","s"," ","b","i","g","."," ","O","l","d"," ","t","o","w","n","."," ","P","o","r","t",".">>, <<"a","b","c">>, <<"C","i","t","y">> }

\* Queries: in another case than the text, at its start, at its end, empty,
\* long, absent from the text, and the whole of a short text.
SnippetQueries ==
  { <<"C","I","T","Y">>, <<"t","a","i","p","e","i">>, <<"p","o","r","t",".">>, <<>>, <<"i","s"," ","a"," ","c","i","t","y","."," ","I","t"," ","i","s"," ","b","i","g">>, <<"z","z","z">>, <<"A","B","C">> }

SnippetLengths == { -3, -1, 0, 1, 2, 3, 4, 5, 8, 9, 10, 20, 43, 44, 45, 250 }

\* A site with one page of the given text, whose summary is its first
\* sentence.
SnippetSite(text) ==
  <<"T","a","i","p","e","i">> :>
    [ exists |-> TRUE, title |-> <<"T","a","i","p","e","i">>, pageid |-> 57,
      summary |-> PySlice(text, 0, 17), text |-> text, fullurl |-> <<"w","i","k","i","/","T","a","i","p","e","i">>,
      sections |-> <<>>, categories |-> <<>>, links |-> <<>> ]

\* The run starts with the client, the arguments of the one
\* summarize_for_query it makes and the page the library will serve.
InitSnippet ==
  /\ TablesInit
  /\ clients \in { <<c>> : c \in OpsClients }
  /\ servers = <<>>
  /\ call \in { [op |-> "none", args |-> << <<"T","a","i","p","e","i">>, query, max_length >>,
                 outcome |-> [kind |-> "site", site |-> SnippetSite(text)]] :
                  query \in SnippetQueries, max_length \in SnippetLengths,
                  text \in SnippetTexts }
  /\ outbound = <<>>
  /\ heap = <<>>
  /\ in_country = None

\* clients[1].summarize_for_query(title, query, max_length)
SnippetOnce ==
  /\ call.op = "none"
  /\ Perform(1, "summarize_for_query", call.args, call.outcome)

NextSnippet == SnippetOnce

SpecSnippet == InitSnippet /\ [][NextSnippet]_vars

\* The 0-based places of text at which query occurs, ignoring case.
Occurrences(text, query) ==
  { a \in 0..(Len(text) - Len(query)) :
      \A k \in 1..Len(query) : char_lower(text[a + k]) = char_lower(query[k]) }

\* C24: summarize_for_query, when the query occurs in the article text
\* ignoring case, returns a part of the article text of at most max_length
\* characters (none for a max_length below zero), followed or not by "...",
\* and that part contains the first occurrence of the query whenever the
\* query is no longer than max_length.
C24_SnippetContainsQuery ==
  (/\ call.op = "summarize_for_query"
   /\ call.outcome.kind = "site"
   /\ Occurrences(call.outcome.site[call.args[1]].text, call.args[2]) # {})
  =>
    LET text == call.outcome.site[call.args[1]].text
        query == call.args[2]
        max_length == call.args[3]
        at == Occurrences(text, query)
        first == CHOOSE a \in at : \A b \in at : a <= b
        value == call.ret.value
        bodies == { value } \cup
                  (IF Len(value) >= 3 /\ SubSeq(value, Len(value) - 2, Len(value)) = Ellipsis
                     THEN { SubSeq(value, 1, Len(value) - 3) } ELSE {})
    IN
    \E body \in bodies :
      /\ Len(body) <= (IF max_length < 0 THEN 0 ELSE max_length)
      /\ \E a \in 0..(Len(text) - Len(body)) :
           /\ body = SubSeq(text, a + 1, a + Len(body))
           /\ Len(query) <= max_length => (a <= first /\ first + Len(query) <= a + Len(body))
----------------------------------------------------------------------------
(* Sections by title (SpecSections)                                        *)

\* A section of a page.
Section(title, text, sections) == [title |-> title, text |-> text, sections |-> sections]

\* Section trees: none; flat; nested three deep; two sections of the same
\* title; a title whose first section, a subsection, is empty and whose
\* second has text; the same with both at the top.
SectionTrees ==
  { <<>>,
    << Section(<<"I","n","t","r","o">>, <<"I","n","t","r","o"," ","t","e","x","t"," ","h","e","r","e",".">>, <<>>), Section(<<"H","i","s","t","o","r","y">>, <<"O","l","d"," ","t","o","w","n","."," ","P","o","r","t",".">>, <<>>) >>,
    << Section(<<"A">>, <<"T","e","x","t"," ","o","f"," ","A",".">>,
               << Section(<<"B">>, <<>>, << Section(<<"E","a","r","l","y">>, <<"D","e","e","p","."," ","D","o","w","n",".">>, <<>>) >>) >>),
       Section(<<"H","i","s","t","o","r","y">>, <<"O","l","d"," ","t","o","w","n","."," ","P","o","r","t",".">>, <<>>) >>,
    << Section(<<"H","i","s","t","o","r","y">>, <<"F","i","r","s","t","."," ","O","n","e",".">>, <<>>), Section(<<"H","I","S","T","O","R","Y">>, <<"S","e","c","o","n","d",".">>, <<>>),
       Section(<<"E","a","r","l","y">>, <<"E">>, <<>>) >>,
    PageTaipei.sections,
    << Section(<<"E","a","r","l","y">>, <<>>, <<>>), Section(<<"e","a","r","l","y">>, <<"L","a","t","e","r",".">>, <<>>),
       Section(<<"H","i","s","t","o","r","y">>, <<"O","l","d"," ","t","o","w","n","."," ","P","o","r","t",".">>, << Section(<<"H","i","s","t","o","r","y">>, <<"I","n","n","e","r",".">>, <<>>) >>) >> }

\* The section titles asked for: in another case than the page has them,
\* and one the page does not have.
SectionTitleInputs == { <<"h","i","s","t","o","r","y">>, <<"e","a","r","l","y">>, <<"E","A","R","L","Y">>, <<"n","o","p","e">>, <<"B">> }

SectionLengths == { -1, 0, 1, 4, 5, 15, 16, 200 }

SectionCounts == { 1, 5 }

\* A site with one page of the given sections.
SectionSite(sections) == <<"T","a","i","p","e","i">> :> [PageTaipei EXCEPT !.sections = sections]

\* The run starts with the client, the operation it will call once
\* (summarize_section or extract_facts with a topic), the arguments and the
\* page the library will serve.
InitSections ==
  /\ TablesInit
  /\ clients \in { <<c>> : c \in OpsClients }
  /\ servers = <<>>
  /\ call \in { [op |-> "none", pending |-> "summarize_section",
                 args |-> << <<"T","a","i","p","e","i">>, section_title, max_length >>,
                 outcome |-> [kind |-> "site", site |-> SectionSite(sections)]] :
                  section_title \in SectionTitleInputs, max_length \in SectionLengths,
                  sections \in SectionTrees }
          \cup { [op |-> "none", pending |-> "extract_facts",
                  args |-> << <<"T","a","i","p","e","i">>, topic, count >>,
                  outcome |-> [kind |-> "site", site |-> SectionSite(sections)]] :
                   topic \in SectionTitleInputs, count \in SectionCounts,
                   sections \in SectionTrees }
  /\ outbound = <<>>
  /\ heap = <<>>
  /\ in_country = None

\* clients[1].summarize_section(title, section_title, max_length)
SectionOnce ==
  /\ call.op = "none"
  /\ call.pending = "summarize_section"
  /\ Perform(1, "summarize_section", call.args, call.outcome)

\* clients[1].extract_facts(title, topic_within_article, count)
TopicFactsOnce ==
  /\ call.op = "none"
  /\ call.pending = "extract_facts"
  /\ Perform(1, "extract_facts", call.args, call.outcome)

NextSections == SectionOnce \/ TopicFactsOnce

SpecSections == InitSections /\ [][NextSections]_vars

\* The sections of a tree in depth-first pre-order: each section, then the
\* sections below it, then the sections after it.
RECURSIVE PreOrder(_)
PreOrder(sections) ==
  IF sections = <<>> THEN <<>>
  ELSE << Head(sections) >> \o PreOrder(Head(sections).sections) \o PreOrder(Tail(sections))

\* The places of the pre-order list whose section has the title, ignoring case.
Titled(sections, target) ==
  { n \in 1..Len(PreOrder(sections)) :
      /\ Len(PreOrder(sections)[n].title) = Len(target)
      /\ \A k \in 1..Len(target) :
           char_lower(PreOrder(sections)[n].title[k]) = char_lower(target[k]) }

\* C25: summarize_section on an existing page returns the "not found or is
\* empty" message when no section has the title (ignoring case) or the first
\* such section in depth-first pre-order has no text; otherwise it returns
\* the first max_length characters of that section's text (none for a
\* max_length below zero), followed by "..." exactly when the text is longer
\* than max_length, so that the result has at most max_length + 3 characters.
C25_SectionSummaryBounded ==
  (/\ call.op = "summarize_section"
   /\ call.outcome.kind = "site")
  =>
    LET sections == call.outcome.site[call.args[1]].sections
        at == Titled(sections, call.args[2])
        first == CHOOSE n \in at : \A m \in at : n <= m
        max_length == IF call.args[3] < 0 THEN 0 ELSE call.args[3]
        value == call.ret.value
    IN
    IF at = {} \/ PreOrder(sections)[first].text = <<>>
      THEN ToString(value) =
             ToString(Message("Section not found or is empty in article",
                              <<call.args[2], call.args[1]>>))
      ELSE LET text == PreOrder(sections)[first].text IN
           /\ ToString(value) =
                ToString(IF Len(text) > max_length
                           THEN SubSeq(text, 1, max_length) \o Ellipsis ELSE text)
           /\ Len(value) <= max_length + 3
\* C29: extract_facts with a topic takes its facts from the section that
\* summarize_section shows for the same page and title, and from the article
\* summary exactly when summarize_section reports the section as not found or
\* empty: its result is the first count sentences of that text.
C29_SameSectionSelected ==
  (/\ call.op = "extract_facts"
   /\ call.outcome.kind = "site"
   /\ call.args[2] # None
   /\ call.args[3] >= 1)
  =>
    LET self == clients[call.client]
        page == call.outcome.site[call.args[1]]
        shown == summarize_section(self, call.args[1], call.args[2], 1000, call.outcome).ret.value
        reported == ToString(shown) =
                      ToString(Message("Section not found or is empty in article",
                                       <<call.args[2], call.args[1]>>))
        source == IF reported THEN page.summary ELSE shown
        available == Cardinality(Pieces(source))
        facts == call.ret.value
    IN
    /\ Len(facts) = (IF available <= call.args[3] THEN available ELSE call.args[3])
    /\ \A n \in 1..Len(facts) : facts[n] = Fact(source, n)
----------------------------------------------------------------------------
(* The entry point (SpecMain)                                              *)

\* The environments of the entry point: no locale variable, a locale with a
\* country of the table and one with a country that is not in it, a locale
\* without a country, and the language variable.
MainEnvironments ==
  [ WIKIPEDIA_LANGUAGE : {None, <<"d","e">>},
    WIKIPEDIA_LANGUAGE_REGION : {None, <<"z","h","_","T","W">>, <<"e","n","-","X","X">>, <<"f","r">>},
    WIKIPEDIA_LOCALE : {None, <<"j","a","_","J","P">>},
    WIKIPEDIA_ACCESS_TOKEN : {None} ]

\* The command lines: --language and --country absent, given, and given
\* empty; --country also with a value that is not in the table.
MainCommandLines ==
  [ language : {None, <<"j","a">>, <<"z","h","-","t","w">>, <<>>},
    country : {None, <<"U","S">>, <<"I","N","V","A","L","I","D">>, <<>>},
    list_countries : BOOLEAN,
    enable_cache : {FALSE},
    access_token : {None},
    transport : {"stdio"} ]

\* The process starts with its environment and its command line.
InitMain ==
  /\ TablesInit
  /\ clients = <<>>
  /\ servers = <<>>
  /\ call \in { [op |-> "none", env |-> env, argv |-> argv] :
                  env \in MainEnvironments, argv \in MainCommandLines }
  /\ outbound = <<>>
  /\ heap = <<>>
  /\ in_country = None

\* main(): the clients and servers it constructed, and what it printed.
MainOnce ==
  /\ call.op = "none"
  /\ \E m \in { main(call.env, call.argv) } :
     /\ call' = [op |-> "main", env |-> call.env, argv |-> call.argv, args |-> m.args,
                 exit |-> m.exit,
                 printed |-> m.printed]
     /\ clients' = IF "server" \in DOMAIN m THEN << m.server.wikipedia_client >>
                   ELSE IF "client" \in DOMAIN m THEN << m.client >>
                   ELSE <<>>
     /\ servers' = IF "server" \in DOMAIN m
                     THEN << [name |-> m.server.name, wikipedia_client |-> 1,
                              running |-> m.exit = "server.run"] >>
                     ELSE <<>>
     /\ outbound' = <<>>
     /\ UNCHANGED <<COUNTRY_TO_LANGUAGE, LANGUAGE_VARIANTS, heap, in_country>>

NextMain == MainOnce

SpecMain == InitMain /\ [][NextMain]_vars

\* main has reported the conflict of --language and --country and returned:
\* it constructed no client and no server.
Rejected ==
  /\ call.exit = "conflict"
  /\ call.printed = conflict_printed
  /\ clients = <<>>
  /\ servers = <<>>

\* C26 as stated: whenever both --language and --country are given on the
\* command line, main reports "Cannot specify both --language and
\* --country", returns, and constructs no client and runs no server.
C26_BothFlagsRejected ==
  (/\ call.op = "main"
   /\ call.argv.language # None
   /\ call.argv.country # None)
  => Rejected

\* C26 as amended: when --language and a non-empty --country are given on
\* the command line and --list-countries is not, main reports "Cannot
\* specify both --language and --country", returns, and constructs no client
\* and runs no server; this holds also for a country that is not in the
\* table, which is never resolved.
C26_BothFlagsRejectedUnlessListing ==
  (/\ call.op = "main"
   /\ call.argv.language # None
   /\ call.argv.country # None
   /\ call.argv.country # <<>>
   /\ ~call.argv.list_countries)
  => Rejected

\* C26 witness: --language ja --country INVALID was refused as a conflict,
\* not as an unsupported country, and nothing was constructed.
C26_Witness ==
  /\ call.op = "main"
  /\ call.argv.language = <<"j","a">>
  /\ call.argv.country = <<"I","N","V","A","L","I","D">>
  /\ call.exit = "conflict"
  /\ clients = <<>>
  /\ servers = <<>>

\* C30: when --country is not given on the command line, main never reports
\* the conflict, whatever the environment holds; and when --language is given
\* and the environment names a country of the table, main creates and runs
\* the server.
C30_EnvironmentNeverConflicts ==
  (/\ call.op = "main"
   /\ call.argv.country = None)
  =>
    /\ call.exit # "conflict"
    /\ (/\ call.argv.language # None
        /\ ~call.argv.list_countries
        /\ _parse_locale_env(call.env)[2] \in { <<"T","W">>, <<"J","P">> })
       => (Len(servers) = 1 /\ servers[1].running)
----------------------------------------------------------------------------
(* The country table is self-consistent (SpecResolve)                      *)

\* The entries of the table that one of the resolver's three forms of the
\* input names: the upper-cased and the title-cased form, both stripped, and
\* the input as given.
Matched(table, country) ==
  LET forms == { str_strip(str_upper(country)), str_strip(str_title(country)), country }
  IN  { i \in 1..Len(table) : table[i][1] \in forms }

\* C27: no two distinct keys of the country table are equal once lower-cased,
\* and the three forms of an input the resolver was called with name at most
\* one entry, so the call returns that entry's language in whatever order the
\* forms are tried and raises ValueError when no form is a key.
C27_TableSelfConsistent ==
  LET table == COUNTRY_TO_LANGUAGE
      lowered == { str_lower(table[i][1]) : i \in 1..Len(table) }
  IN
  /\ Cardinality(lowered) = Len(table)
  /\ call.op = "_resolve_country_to_language" =>
       LET matched == Matched(table, call.args[1]) IN
       /\ Cardinality(matched) <= 1
       /\ matched = {} => call.ret.exc = "ValueError"
       /\ \A i \in matched : call.ret = Return(table[i][2])

\* A lower-cased country name was resolved through its title-cased form, and
\* a padded lower-cased code through its upper-cased form.
C27_Witness ==
  /\ call.op = "_resolve_country_to_language"
  /\ call.args[1] \in { <<"j","a","p","a","n">>, <<" ","t","w"," ">> }
  /\ Matched(COUNTRY_TO_LANGUAGE, call.args[1]) # {}
  /\ call.ret.exc = "None"
----------------------------------------------------------------------------
(* The get_summary tool and the /summary/{title} resource (SpecSummary)    *)

\* str.startswith
str_startswith(s, prefix) ==
  Len(s) >= Len(prefix) /\ SubSeq(s, 1, Len(prefix)) = prefix

\* The two f-strings of WikipediaClient.get_summary, as the characters the
\* caller receives.
f_string(message) ==
  CASE message.text = "No Wikipedia article found for" ->
         <<"N","o"," ","W","i","k","i","p","e","d","i","a"," ","a","r","t","i","c","l","e"," ","f","o","u","n","d"," ","f","o","r"," ","'">> \o message.values[1] \o <<"'",".">>
    [] message.text = "Error retrieving summary for" ->
         <<"E","r","r","o","r"," ","r","e","t","r","i","e","v","i","n","g"," ","s","u","m","m","a","r","y"," ","f","o","r"," ","'">> \o message.values[1] \o <<"'",":"," ">> \o message.values[2]

\* What the tool and the resource receive from wikipedia_client.get_summary:
\* a str, which is the page's summary when the page was retrieved and one of
\* the two f-strings otherwise.
received(title, outcome, value) ==
  IF outcome.kind = "raise" \/ ~wiki_page(outcome.site, title).exists
    THEN f_string(value) ELSE value

\* The get_summary tool with the summary it received from the client.
tool_get_summary(title, summary) ==
  IF truthy(summary) /\ ~str_startswith(summary, <<"E","r","r","o","r">>)
    THEN [title |-> title, summary |-> summary]
    ELSE [title |-> title, summary |-> None, error |-> summary]

\* The /summary/{title} resource with the summary it received from the client.
resource_summary(title, summary_text) ==
  IF truthy(summary_text) /\ ~str_startswith(summary_text, <<"E","r","r","o","r">>)
    THEN [title |-> title, summary |-> summary_text]
    ELSE [title |-> title, summary |-> None, error |-> summary_text]

\* An article whose summary begins with the word "Error".
PageErrorBar ==
  [ exists |-> TRUE, title |-> <<"E","r","r","o","r"," ","b","a","r">>, pageid |-> 60,
    summary |-> <<"E","r","r","o","r"," ","b","a","r","s"," ","s","h","o","w"," ","t","h","e"," ","v","a","r","i","a","b","i","l","i","t","y"," ","o","f"," ","d","a","t","a",".">>,
    text |-> <<"E","r","r","o","r"," ","b","a","r","s"," ","s","h","o","w"," ","t","h","e"," ","v","a","r","i","a","b","i","l","i","t","y"," ","o","f"," ","d","a","t","a",".">>, fullurl |-> <<"w","i","k","i","/","E","r","r","o","r","_","b","a","r">>,
    sections |-> <<>>, categories |-> <<>>, links |-> <<>> ]

\* The sites: one with articles whose summaries are ordinary, empty and
\* beginning with "Error", and one without articles.
SummarySites ==
  { Site @@ (<<"E","r","r","o","r"," ","b","a","r">> :> PageErrorBar), [t \in {} |-> Missing] }

\* The titles asked for: the four articles and one that does not exist.
SummaryTitles == { <<"T","a","i","p","e","i">>, <<"T","a","i","w","a","n">>, <<"T","a","m","s","u","i">>, <<"E","r","r","o","r"," ","b","a","r">>, <<"N","o","p","e">> }

\* The library fails with an exception whose str() is the given text, or
\* serves a site.
SummaryOutcomes ==
  { Failed(<<"t","i","m","e","d"," ","o","u","t">>), Failed(<<>>) } \cup { [kind |-> "site", site |-> s] : s \in SummarySites }

\* The server and its client exist; the run starts with the title of the one
\* request and what the library will do.
InitSummary ==
  /\ TablesInit
  /\ clients \in { <<c>> : c \in OpsClients }
  /\ servers = << [name |-> "Wikipedia", wikipedia_client |-> 1, running |-> TRUE] >>
  /\ call \in { [op |-> "none", args |-> <<title>>, outcome |-> outcome] :
                  title \in SummaryTitles, outcome \in SummaryOutcomes }
  /\ outbound = <<>>
  /\ heap = <<>>
  /\ in_country = None

\* A request to the server's get_summary tool
ToolGetSummary ==
  /\ call.op = "none"
  /\ LET i == servers[1].wikipedia_client
         title == call.args[1]
         r == invoke(clients[i], "get_summary", call.args, call.outcome)
     IN
     /\ ~clients[i].enable_cache
     /\ clients' = clients
     /\ call' = [op |-> "tool get_summary", client |-> i, args |-> call.args,
                 outcome |-> call.outcome, ret |-> r.ret,
                 reply |-> tool_get_summary(title, received(title, call.outcome, r.ret.value)),
                 log |-> << Line("info", "Tool: Getting summary for:", <<title>>) >>
                         \o logged(clients[i], "get_summary", call.args, call.outcome)]
     /\ outbound' = r.requests
  /\ UNCHANGED <<COUNTRY_TO_LANGUAGE, LANGUAGE_VARIANTS, servers, heap, in_country>>

\* A request for the resource /summary/{title}
ResourceSummary ==
  /\ call.op = "none"
  /\ LET i == servers[1].wikipedia_client
         title == call.args[1]
         r == invoke(clients[i], "get_summary", call.args, call.outcome)
     IN
     /\ ~clients[i].enable_cache
     /\ clients' = clients
     /\ call' = [op |-> "resource /summary/{title}", client |-> i, args |-> call.args,
                 outcome |-> call.outcome, ret |-> r.ret,
                 reply |-> resource_summary(title, received(title, call.outcome, r.ret.value)),
                 log |-> << Line("info", "Getting summary for:", <<title>>) >>
                         \o logged(clients[i], "get_summary", call.args, call.outcome)]
     /\ outbound' = r.requests
  /\ UNCHANGED <<COUNTRY_TO_LANGUAGE, LANGUAGE_VARIANTS, servers, heap, in_country>>

NextSummary == ToolGetSummary \/ ResourceSummary

SpecSummary == InitSummary /\ [][NextSummary]_vars

\* The client retrieved the summary of an existing page.
Retrieved ==
  /\ call.outcome.kind = "site"
  /\ wiki_page(call.outcome.site, call.args[1]).exists

\* C28: the get_summary tool and the /summary/{title} resource answer
\* {title, summary} with the page's summary when the client retrieved the
\* summary of an existing page, and with summary null and an error field when
\* the page is missing or the retrieval failed, and in no other case.
C28_SummaryOrError ==
  call.op \in {"tool get_summary", "resource /summary/{title}"} =>
    IF Retrieved
      THEN call.reply = [title |-> call.args[1],
                         summary |-> wiki_page(call.outcome.site, call.args[1]).summary]
      ELSE /\ "error" \in DOMAIN call.reply
           /\ call.reply.summary = None
=============================================================================
